---- MODULE Spec2Model ----
(***************************************************************************)
(* A model of the vote-lifecycle services of the voting backend:           *)
(*   - ElectionService (election_service.py): the election row and its     *)
(*     status machine;                                                     *)
(*   - VoteService (vote_service.py): token issuance and the submit_vote   *)
(*     pipeline, one step per suspension point (await) of the coroutine;   *)
(*   - TallyService (tally_service.py): start_tally and its tally run;     *)
(*   - the ledger behind FabricClient.invoke_chaincode/query_chaincode,    *)
(*     an append-only log with read-back.                                  *)
(* Every request runs on a database session of its own: a read sees what   *)
(* has been committed when it executes, a write becomes visible at the     *)
(* request's commit.                                                       *)
(***************************************************************************)
EXTENDS Integers, Sequences, FiniteSets, Bags, TLC

\* ------------------------------------------------------------------ bounds
\* Clock ticks the model lets pass.
MaxTicks == 2
\* submit_vote calls started over a run.
MaxSubmits == 2
\* Candidates an election may hold.
MaxCandidates == 3
\* Encryptions summed into one ciphertext.
MaxTerms == 2
\* Depth of a MerkleTree.
MaxDepth == 2

\* -------------------------------------------------------- program constants
\* timedelta(minutes=30), the token lifetime.
TOKEN_TTL_MINUTES == 30
\* settings.ELECTION_KEY_THRESHOLD
ELECTION_KEY_THRESHOLD == 3
\* set_election_keys: "Must provide exactly 5 key shares"
KEY_SHARES_REQUIRED == 5
\* update_status: "Election must have at least 2 candidates"
MIN_CANDIDATES == 2
\* Positional arguments _perform_tally passes to CGSProtocol.decrypt.
DecryptArgsPassed == 2
\* Parameters CGSProtocol.decrypt requires (ciphertext, private_key, public_key).
DecryptArgsRequired == 3

\* _calculate_voting_period: total_seconds() / 3600, here in minutes.
MINUTES_PER_HOUR == 60

\* One clock tick, in minutes: one token lifetime.
TickMinutes == TOKEN_TTL_MINUTES
LastTime == MaxTicks * TickMinutes

\* None of a nullable DateTime column / an unset field of ElectionUpdate.
NoTime == -1
Unset == -2
\* None of a nullable text column, of a tx_id, of an optional user_id.
None == "none"

ElectionId == "e1"
\* e2 is the id of no stored election.
ElectionIds == {"e1", "e2"}

\* ElectionStatus
Statuses == {"draft", "pending", "active", "closed", "tallying", "completed", "cancelled"}
\* VotingMode
VotingModes == {"single", "multi_limited", "periodic_reset"}

\* An encrypted_vote string as json.loads reads it. encrypt_vote serializes a
\* ballot as a JSON list with one ciphertext per candidate (bits: the bit each
\* encrypts); CGSProtocol._serialize_ciphertext writes one ciphertext as a JSON
\* object {c1, c2} = (g^r, h^r g^m), kept here by its exponents m and r.
VectorBallot(bits) == [kind |-> "vector", bits |-> bits, m |-> 0, r |-> 0]
ScalarBallot(m, r) == [kind |-> "scalar", bits |-> << >>, m |-> m, r |-> r]
\* encrypt_vote(choice, num_candidates, ...): 1 at the choice, 0 elsewhere.
UnitBallot(choice) ==
    VectorBallot([i \in 1..MaxCandidates |-> IF i = choice THEN 1 ELSE 0])
\* No ciphertext yet, and the exception a ciphertext operation raises.
NoCiphertext == [kind |-> "none", bits |-> << >>, m |-> 0, r |-> 0]
RaisedCiphertext == [kind |-> "raised", bits |-> << >>, m |-> 0, r |-> 0]

\* Raw tokens generate_vote_token may return, nullifiers, ciphertexts, voters.
Tokens == {"t1", "t2"}
Nullifiers == {"n1", "n2"}
Ciphertexts == {UnitBallot(1)}
Users == {"v1"}
\* The user_id the submit endpoint hands to submit_vote: none.
SubmitUsers == {None}
\* The candidate_selections submit_vote is called with: none from the submit
\* endpoint, or a list of {candidate_id, votes}: one vote or two votes for the
\* first candidate.
NoSelections == << >>
Selection(candidate_id, votes) == [candidate_id |-> candidate_id, votes |-> votes]
CandidateSelections == {NoSelections, <<Selection(1, 1)>>, <<Selection(1, 2)>>}
\* The request tasks that may be inside submit_vote at a time.
Requests == {"r1", "r2"}

\* hashlib.sha256(x).hexdigest(): injective on the values of the model.
Hash(x) == <<"sha256", x>>

VARIABLES
    now,            \* datetime.utcnow(), in minutes
    election,       \* the row of table elections with id e1 (with its candidates)
    tokens,         \* table vote_tokens, by raw token
    receipts,       \* table vote_receipts, in insertion order
    participations, \* table voter_participations, in insertion order
    audit,          \* table vote_audit_logs, in insertion order
    ledger,         \* the ledger's entries, in append order
    req,            \* the bag of submit_vote calls in flight: position and locals
    submits,        \* submit_vote calls started so far
    accepted,       \* per raw token, the submit_vote calls that returned success
    last,           \* what the service call made by the latest step returned
    cgs,            \* the CGSProtocol values at hand: key pair, shares, ciphertexts, output
    tree            \* a MerkleTree object: depth, leaves, and the latest call's result

vars == <<now, election, tokens, receipts, participations, audit, ledger, req,
          submits, accepted, last, cgs,
          tree>>

NoResponse == [op |-> "none", result |-> "none"]
Response(op, result) == [op |-> op, result |-> result]

\* ------------------------------------------------------------ Election row
\* Election.is_active
is_active(e, t) ==
    IF e.status # "active" THEN FALSE
    ELSE IF e.start_time # NoTime /\ t < e.start_time THEN FALSE
    ELSE IF e.end_time # NoTime /\ t > e.end_time THEN FALSE
    ELSE TRUE

\* ElectionService.get_election
get_election(id) == id = ElectionId /\ election.exists

\* valid_transitions of update_status
valid_transitions(s) ==
    CASE s = "draft" -> {"pending", "cancelled"}
      [] s = "pending" -> {"active", "cancelled"}
      [] s = "active" -> {"closed", "cancelled"}
      [] s = "closed" -> {"tallying"}
      [] s = "tallying" -> {"completed"}
      [] OTHER -> {}

\* The "Additional validation" of update_status: the reason it refuses, or None.
activation_error(e) ==
    IF e.election_public_key = None THEN "Election public key not set"
    ELSE IF e.voter_merkle_root = None THEN "Voter eligibility not configured"
    ELSE IF e.candidates < MIN_CANDIDATES THEN "Election must have at least 2 candidates"
    ELSE None

ElectionFrame == UNCHANGED <<now, tokens, receipts, participations, audit, ledger,
                             req, submits, accepted, cgs, tree>>

\* The fields an ElectionUpdate may set (title and description, which nothing
\* reads, are left out); "unset" and Unset are the fields the request omits.
NoStatus == "unset"
UpdateTimes == {Unset, NoTime, TickMinutes}
ElectionUpdates == [start_time : UpdateTimes, end_time : UpdateTimes,
                    status : {NoStatus} \cup Statuses]

\* for field, value in update_data.items(): setattr(election, field, value)
apply_update(e, data) ==
    [e EXCEPT !.start_time = IF data.start_time = Unset THEN @ ELSE data.start_time,
              !.end_time = IF data.end_time = Unset THEN @ ELSE data.end_time,
              !.status = IF data.status = NoStatus THEN @ ELSE data.status]

\* ElectionService.update_election
update_election(id, data) ==
    /\ ElectionFrame
    /\ IF ~get_election(id)
       THEN /\ last' = Response("update_election", "none")
            /\ UNCHANGED election
       ELSE IF election.status # "draft"
       THEN /\ last' = Response("update_election", "error")
            /\ UNCHANGED election
       ELSE /\ election' = apply_update(election, data)
            /\ last' = Response("update_election", "ok")

\* A faulty variant of update_status that assigns the status before the
\* "Additional validation" and returns failure afterwards; C4 tells it from
\* the code.
update_status_assigns_first(id, new_status) ==
    /\ ElectionFrame
    /\ IF ~get_election(id) \/ new_status \notin valid_transitions(election.status)
       THEN /\ last' = Response("update_status", "fail")
            /\ UNCHANGED election
       ELSE /\ election' = [election EXCEPT !.status = new_status]
            /\ last' = IF new_status = "active" /\ activation_error(election) # None
                       THEN Response("update_status", "fail")
                       ELSE Response("update_status", "ok")

\* ElectionService.update_status
update_status(id, new_status) ==
    /\ ElectionFrame
    /\ IF ~get_election(id)
       THEN /\ last' = Response("update_status", "fail")
            /\ UNCHANGED election
       ELSE IF new_status \notin valid_transitions(election.status)
       THEN /\ last' = Response("update_status", "fail")
            /\ UNCHANGED election
       ELSE IF new_status = "active" /\ activation_error(election) # None
       THEN /\ last' = Response("update_status", "fail")
            /\ UNCHANGED election
       ELSE /\ election' = [election EXCEPT !.status = new_status]
            /\ last' = Response("update_status", "ok")

\* A faulty variant of set_election_keys without the draft check; C38 tells it
\* from the code.
set_election_keys_in_any_status(id, key_shares) ==
    /\ ElectionFrame
    /\ IF ~get_election(id) \/ key_shares # KEY_SHARES_REQUIRED
       THEN /\ last' = Response("set_election_keys", "fail")
            /\ UNCHANGED election
       ELSE /\ election' = [election EXCEPT !.election_public_key = "pk",
                                                  !.election_private_key_shares = key_shares]
            /\ last' = Response("set_election_keys", "ok")

\* ElectionService.set_election_keys; key_shares is the number of shares given.
set_election_keys(id, key_shares) ==
    /\ ElectionFrame
    /\ IF ~get_election(id) \/ election.status # "draft"
          \/ key_shares # KEY_SHARES_REQUIRED
       THEN /\ last' = Response("set_election_keys", "fail")
            /\ UNCHANGED election
       ELSE /\ election' = [election EXCEPT !.election_public_key = "pk",
                                                  !.election_private_key_shares = key_shares]
            /\ last' = Response("set_election_keys", "ok")

\* ElectionService.set_voter_eligibility
set_voter_eligibility(id) ==
    /\ ElectionFrame
    /\ IF ~get_election(id) \/ election.status # "draft"
       THEN /\ last' = Response("set_voter_eligibility", "fail")
            /\ UNCHANGED election
       ELSE /\ election' = [election EXCEPT !.voter_merkle_root = "root"]
            /\ last' = Response("set_voter_eligibility", "ok")

\* ElectionService.add_candidate: an INSERT into candidates, the election row is
\* not written.
add_candidate(id) ==
    /\ ElectionFrame
    /\ IF ~get_election(id)
       THEN /\ last' = Response("add_candidate", "none")
            /\ UNCHANGED election
       ELSE IF election.status # "draft"
       THEN /\ last' = Response("add_candidate", "error")
            /\ UNCHANGED election
       ELSE /\ election.candidates < MaxCandidates
            /\ election' = [election EXCEPT !.candidates = @ + 1]
            /\ last' = Response("add_candidate", "ok")

\* ElectionService.remove_candidate; known says whether candidate_id names a
\* candidate of the election.
remove_candidate(id, known) ==
    /\ ElectionFrame
    /\ IF ~get_election(id)
       THEN /\ last' = Response("remove_candidate", "fail")
            /\ UNCHANGED election
       ELSE IF election.status # "draft"
       THEN /\ last' = Response("remove_candidate", "error")
            /\ UNCHANGED election
       ELSE IF ~known \/ election.candidates = 0
       THEN /\ last' = Response("remove_candidate", "fail")
            /\ UNCHANGED election
       ELSE /\ election' = [election EXCEPT !.candidates = @ - 1]
            /\ last' = Response("remove_candidate", "ok")

\* ElectionService.delete_election
delete_election(id) ==
    /\ ElectionFrame
    /\ IF ~get_election(id)
       THEN /\ last' = Response("delete_election", "fail")
            /\ UNCHANGED election
       ELSE IF election.status # "draft"
       THEN /\ last' = Response("delete_election", "error")
            /\ UNCHANGED election
       ELSE /\ election' = [election EXCEPT !.exists = FALSE]
            /\ last' = Response("delete_election", "ok")

\* ------------------------------------------------------------------ ledger
\* An entry the chaincode recorded: CastVote (VOTE) or StoreTallyResult (TALLY).
LedgerEntry(type, nullifier, payload) ==
    [type |-> type, nullifier |-> nullifier, payload |-> payload,
     tx |-> Len(ledger) + 1]

VoteEntries == {i \in 1..Len(ledger) : ledger[i].type = "VOTE"}

\* FabricClient.query_chaincode("GetAllVotes"): the development client answers
\* an empty list, a connected network the election's recorded votes.
RecordedVotes ==
    LET votes == SelectSeq(ledger, LAMBDA entry : entry.type = "VOTE")
    IN [i \in 1..Len(votes) |-> votes[i].payload]
GetAllVotesAnswers == {<< >>, RecordedVotes}

\* ------------------------------------------------------------------- tally
\* A serialized KeyShare handed to start_tally: its index, and whether
\* g^share = verification_point holds for the numbers it carries.
TrusteeShare(index, sound) == [index |-> index, sound |-> sound]

\* The key_shares lists a request carries: trustees {1, 2, 4} of the five, two
\* shares only, one share given three times, and a list of four with one
\* unsound share among three sound ones.
KeyShareLists ==
    {<<TrusteeShare(1, TRUE), TrusteeShare(2, TRUE), TrusteeShare(4, TRUE)>>,
     <<TrusteeShare(1, TRUE), TrusteeShare(2, TRUE)>>,
     <<TrusteeShare(1, TRUE), TrusteeShare(1, TRUE), TrusteeShare(1, TRUE)>>,
     <<TrusteeShare(1, TRUE), TrusteeShare(2, TRUE), TrusteeShare(3, FALSE),
       TrusteeShare(4, TRUE)>>}

\* The share_proofs lists a request carries; an element says whether
\* json.loads accepts the proof string.
ShareProofs == {<< >>, <<TRUE, TRUE, TRUE>>, <<TRUE, FALSE, TRUE>>,
                <<TRUE, TRUE, TRUE, TRUE>>}

\* CGSProtocol.verify_key_share_proof: the proof must parse, the share must
\* satisfy g^share = verification_point; the proof's content is not read.
verify_key_share_proof(key_share, proof) == proof /\ key_share.sound

\* for i, (share, proof) in enumerate(zip(key_shares, share_proofs)): the first
\* pair whose proof is refused, 0 when none is. zip stops at the shorter list.
first_invalid_proof(key_shares, share_proofs) ==
    LET pairs == IF Len(key_shares) < Len(share_proofs)
                 THEN Len(key_shares) ELSE Len(share_proofs)
        bad == {i \in 1..pairs : ~verify_key_share_proof(key_shares[i], share_proofs[i])}
    IN IF bad = {} THEN 0 ELSE CHOOSE i \in bad : \A j \in bad : i <= j

\* CGSProtocol.homomorphic_add: both strings are read by _deserialize_ciphertext
\* as a JSON object with c1 and c2, which raises on any other JSON value; the
\* result is the component-wise product, the sum of the exponents.
homomorphic_add(c1, c2) ==
    IF c1.kind # "scalar" \/ c2.kind # "scalar" THEN RaisedCiphertext
    ELSE ScalarBallot(c1.m + c2.m, c1.r + c2.r)

\* aggregated = encrypted_votes[0]; for vote in encrypted_votes[1:]: ... with
\* aggregated so far and the votes still to add.
RECURSIVE aggregate_from(_, _)
aggregate_from(aggregated, votes) ==
    IF votes = << >> \/ aggregated.kind = "raised" THEN aggregated
    ELSE aggregate_from(homomorphic_add(aggregated, Head(votes)), Tail(votes))

\* TallyService._aggregate_votes; "" for no votes.
_aggregate_votes(encrypted_votes) ==
    IF encrypted_votes = << >> THEN NoCiphertext
    ELSE aggregate_from(Head(encrypted_votes), Tail(encrypted_votes))

\* What StoreTallyResult records and GetTallyResult answers: the counts by
\* candidate, the hash of the aggregate, and the decryption proof as
\* json.loads reads it.
DecryptionProof(parses, ciphertext_hash) ==
    [parses |-> parses, ciphertext_hash |-> ciphertext_hash]
TallyResult(vote_counts, aggregated_hash, decryption_proof) ==
    [vote_counts |-> vote_counts, aggregated_hash |-> aggregated_hash,
     decryption_proof |-> decryption_proof]

\* TallyService._parse_tally of what decrypt returns: an int has no split, the
\* exception is caught and the counts are {}.
_parse_tally(decrypted_tally) == << >>

\* TallyService._perform_tally on the votes read: the status it leaves, whether
\* it raised, and the result it stored on the ledger if it stored one.
_perform_tally(votes) ==
    LET aggregated_ciphertext == _aggregate_votes(votes)
        result == TallyResult(_parse_tally(aggregated_ciphertext.m),
                              Hash(aggregated_ciphertext),
                              DecryptionProof(TRUE, Hash(aggregated_ciphertext)))
    IN IF votes = << >>
       THEN [status |-> "tallying", stored |-> FALSE, raised |-> FALSE, result |-> result]
       ELSE IF aggregated_ciphertext.kind = "raised"
       THEN [status |-> "tallying", stored |-> FALSE, raised |-> TRUE, result |-> result]
       ELSE IF DecryptArgsPassed # DecryptArgsRequired
       THEN [status |-> "tallying", stored |-> FALSE, raised |-> TRUE, result |-> result]
       ELSE [status |-> "completed", stored |-> TRUE, raised |-> FALSE, result |-> result]

\* TallyService.start_tally
start_tally(id, key_shares, share_proofs) ==
    /\ UNCHANGED <<now, tokens, receipts, participations, audit, req, submits, accepted, cgs, tree>>
    /\ IF \/ ~get_election(id)
          \/ election.status # "closed"
          \/ Len(key_shares) < ELECTION_KEY_THRESHOLD
          \/ first_invalid_proof(key_shares, share_proofs) # 0
       THEN /\ last' = Response("start_tally", "fail")
            /\ UNCHANGED <<election, ledger>>
       ELSE \E votes \in GetAllVotesAnswers :
              LET run == _perform_tally(votes) IN
                /\ election' = [election EXCEPT !.status = run.status]
                /\ ledger' = IF run.stored
                             THEN Append(ledger, LedgerEntry("TALLY", None, run.result))
                             ELSE ledger
                /\ last' = Response("start_tally", IF run.raised THEN "error" ELSE "ok")

\* ------------------------------------------------------------- vote tokens
\* VoteToken.is_valid
is_valid(tok, t) ==
    IF tok.is_used THEN FALSE
    ELSE IF t > tok.expires_at THEN FALSE
    ELSE TRUE

\* generate_vote_token: a raw token no row holds yet, taken in a fixed order
\* among the raw tokens of the run, the keys of tokens.
TokenOrder == <<"t1", "t2">>
FreshTokens ==
    {i \in 1..Len(TokenOrder) :
        TokenOrder[i] \in DOMAIN tokens /\ ~tokens[TokenOrder[i]].exists}
generate_vote_token ==
    TokenOrder[CHOOSE i \in FreshTokens : \A j \in FreshTokens : i <= j]

\* The rows issue_vote_token's "existing token" query selects.
existing_tokens ==
    {t \in DOMAIN tokens :
        tokens[t].exists /\ ~tokens[t].is_used /\ tokens[t].expires_at > now}

AuditEntry(action, hash) == [action |-> action, action_hash |-> hash]

\* VoteService.issue_vote_token
issue_vote_token(user_id, id) ==
    /\ UNCHANGED <<now, election, receipts, participations, ledger, req, submits, accepted, cgs, tree>>
    /\ IF ~get_election(id) \/ ~is_active(election, now)
       THEN /\ last' = Response("issue_vote_token", "fail")
            /\ UNCHANGED <<tokens, audit>>
       ELSE IF Cardinality(existing_tokens) > 1
       THEN /\ last' = Response("issue_vote_token", "error")
            /\ UNCHANGED <<tokens, audit>>
       ELSE IF existing_tokens # {}
       THEN /\ last' = Response("issue_vote_token", "fail")
            /\ UNCHANGED <<tokens, audit>>
       ELSE /\ FreshTokens # {}
            /\ LET token == generate_vote_token IN
                 /\ tokens' = [tokens EXCEPT ![token] =
                                 [exists |-> TRUE, expires_at |-> now + TOKEN_TTL_MINUTES,
                                  is_used |-> FALSE, used_at |-> NoTime,
                                  voter_ref |-> user_id]]
                 /\ audit' = Append(audit, AuditEntry("token_issued", Hash(Hash(token))))
            /\ last' = Response("issue_vote_token", "ok")

\* ------------------------------------------------------------- submit_vote
\* blockchain_result.get("tx_id") of a submission the ledger did not record.
NoTx == 0

\* The proofs a request carries: both well formed, or one the engine refuses.
ProofKinds == {"ok", "bad_eligibility", "bad_validity"}

\* VoterParticipation.votes_by_candidate: votes by candidate id, 0 where the
\* dict has no key.
NoVotes == [c \in 1..MaxCandidates |-> 0]

\* sum(s.get("votes", 1) for s in candidate_selections)
RECURSIVE SumVotes(_)
SumVotes(candidate_selections) ==
    IF candidate_selections = << >> THEN 0
    ELSE Head(candidate_selections).votes + SumVotes(Tail(candidate_selections))

\* votes_count = 1; if candidate_selections: votes_count = sum(...)
votes_count(candidate_selections) ==
    IF candidate_selections = NoSelections THEN 1 ELSE SumVotes(candidate_selections)

\* for selection in candidate_selections:
\*     votes_by_candidate[cand_id] = votes_by_candidate.get(cand_id, 0) + votes
RECURSIVE add_selections(_, _)
add_selections(votes_by_candidate, candidate_selections) ==
    IF candidate_selections = << >> THEN votes_by_candidate
    ELSE LET selection == Head(candidate_selections) IN
           add_selections([votes_by_candidate EXCEPT ![selection.candidate_id] =
                               @ + selection.votes],
                          Tail(candidate_selections))

\* The locals of a submit_vote call that has passed "Verify token". An argument
\* of the call is drawn at the step that first reads it: until then its value
\* bears on nothing.
NewCall(token) ==
    [pc |-> "election", token |-> token, user_id |-> None,
     candidate_selections |-> NoSelections, period |-> 0,
     nullifier |-> None, encrypted_vote |-> NoCiphertext, tx |-> NoTx,
     part |-> 0, part_total |-> 0, part_votes |-> NoVotes]

\* The calls in flight; q is one of them.
InFlight == BagToSet(req)
At(q, pc) == q \in InFlight /\ q.pc = pc

\* Call q moves on within submit_vote with locals q2.
Continue(q, q2) ==
    /\ req' = (req (-) SetToBag({q})) (+) SetToBag({q2})
    /\ last' = NoResponse

\* Call q returns: its locals are gone, its task is free.
Finish(q, result) ==
    /\ req' = req (-) SetToBag({q})
    /\ last' = Response("submit_vote", result)

\* VoteService._calculate_voting_period
_calculate_voting_period(e, t) ==
    IF e.start_time = NoTime \/ e.reset_interval_hours = 0 THEN 0
    ELSE (t - e.start_time) \div (MINUTES_PER_HOUR * e.reset_interval_hours)

\* VoteService._get_voter_hash of "user_id or uuid.uuid4()": a call without
\* user_id hashes a fresh uuid4 (None here), a hash no stored row carries.
_get_voter_hash(user_id, election_id) == Hash(<<user_id, election_id>>)
FreshVoterHash == _get_voter_hash(None, ElectionId)

\* The rows _get_voter_participation selects.
_get_voter_participation(voter_hash, period) ==
    {i \in 1..Len(participations) :
        /\ voter_hash # FreshVoterHash
        /\ participations[i].voter_hash = voter_hash
        /\ participations[i].voting_period = period}

\* What the steps before the ledger append leave alone.
ReadOnlyStep ==
    UNCHANGED <<now, election, tokens, receipts, participations, audit, ledger, accepted, cgs, tree>>

\* A request task enters submit_vote; "Verify token"
SubmitCheckToken(token) ==
    /\ submits < MaxSubmits
    /\ BagCardinality(req) < Cardinality(Requests)
    /\ submits' = submits + 1
    /\ ReadOnlyStep
    /\ LET token_record == tokens[token] IN
         IF ~token_record.exists \/ token_record.is_used
         THEN /\ req' = req
              /\ last' = Response("submit_vote", "Invalid or already used token")
         ELSE IF ~is_valid(token_record, now)
         THEN /\ req' = req
              /\ last' = Response("submit_vote", "Token has expired")
         ELSE /\ req' = req (+) SetToBag({NewCall(token)})
              /\ last' = NoResponse

\* submit_vote, "Verify election is active"
SubmitCheckElection(q) ==
    /\ At(q, "election")
    /\ ReadOnlyStep
    /\ UNCHANGED submits
    /\ IF ~election.exists \/ ~is_active(election, now)
       THEN Finish(q, "Election is not active")
       ELSE Continue(q, [q EXCEPT !.pc = "eligibility"])

\* VoteService._check_voting_eligibility: "ok", "refused", or "raised" when
\* scalar_one_or_none finds several rows; and the period it returns.
_check_voting_eligibility(e, voter_hash, candidate_selections, t) ==
    LET current_period == _calculate_voting_period(e, t)
        period == IF e.voting_mode = "periodic_reset" THEN current_period ELSE 0
        rows == _get_voter_participation(voter_hash, period)
        participation == participations[CHOOSE i \in rows : TRUE]
        max_total_votes == e.max_candidates_per_voter * e.max_votes_per_candidate
        over_candidate ==
            \E k \in 1..Len(candidate_selections) :
                participation.votes_by_candidate[candidate_selections[k].candidate_id]
                  + candidate_selections[k].votes > e.max_votes_per_candidate
        refused == IF rows = {} THEN FALSE
                   ELSE IF e.voting_mode = "multi_limited"
                   THEN participation.total_votes_cast >= max_total_votes \/ over_candidate
                   ELSE participation.total_votes_cast > 0
    IN [verdict |-> IF Cardinality(rows) > 1 THEN "raised"
                    ELSE IF refused THEN "refused" ELSE "ok",
        period |-> period]

\* submit_vote, "Check voting eligibility based on mode"
SubmitCheckEligibility(q, user_id, candidate_selections) ==
    /\ At(q, "eligibility")
    /\ ReadOnlyStep
    /\ UNCHANGED submits
    /\ LET check == _check_voting_eligibility(election, _get_voter_hash(user_id, ElectionId),
                                              candidate_selections, now) IN
         IF check.verdict = "raised" THEN Finish(q, "error")
         ELSE IF check.verdict = "refused" THEN Finish(q, "Already voted")
         ELSE Continue(q, [q EXCEPT !.pc = "nullifier", !.user_id = user_id,
                                    !.candidate_selections = candidate_selections,
                                    !.period = check.period])

\* The receipts the SINGLE-mode nullifier query selects.
existing_receipt(nullifier) ==
    {i \in 1..Len(receipts) : receipts[i].nullifier_hash = nullifier}

\* ZokratesEngine.verify_eligibility_proof / verify_validity_proof
eligibility_valid(proofs) == proofs # "bad_eligibility"
validity_valid(proofs) == proofs # "bad_validity"

\* A faulty variant of the step below that marks the token used before the
\* nullifier and the proofs are checked; C8 tells it from the code.
SubmitCheckNullifier_spends_token(q, nullifier, proofs) ==
    /\ At(q, "nullifier")
    /\ UNCHANGED <<now, election, receipts, participations, audit, ledger, accepted, cgs, tree, submits>>
    /\ tokens' = [tokens EXCEPT ![q.token].is_used = TRUE, ![q.token].used_at = now]
    /\ LET found == IF election.voting_mode = "single"
                    THEN existing_receipt(nullifier) ELSE {}
       IN IF Cardinality(found) > 1 THEN Finish(q, "error")
          ELSE IF found # {} THEN Finish(q, "Vote already submitted (duplicate nullifier)")
          ELSE IF ~eligibility_valid(proofs) THEN Finish(q, "Invalid eligibility proof")
          ELSE IF ~validity_valid(proofs) THEN Finish(q, "Invalid validity proof")
          ELSE Continue(q, [q EXCEPT !.pc = "ledger", !.nullifier = nullifier])

\* submit_vote, "For SINGLE mode, check nullifier" and the two proof checks
SubmitCheckNullifier(q, nullifier, proofs) ==
    /\ At(q, "nullifier")
    /\ ReadOnlyStep
    /\ UNCHANGED submits
    /\ LET found == IF election.voting_mode = "single"
                    THEN existing_receipt(nullifier) ELSE {}
       IN IF Cardinality(found) > 1 THEN Finish(q, "error")
          ELSE IF found # {} THEN Finish(q, "Vote already submitted (duplicate nullifier)")
          ELSE IF ~eligibility_valid(proofs) THEN Finish(q, "Invalid eligibility proof")
          ELSE IF ~validity_valid(proofs) THEN Finish(q, "Invalid validity proof")
          ELSE Continue(q, [q EXCEPT !.pc = "ledger", !.nullifier = nullifier])

\* FabricClient.invoke_chaincode: the transaction is recorded and its id
\* returned, or the call fails and no tx_id comes back.
InvokeOutcomes == {"recorded", "failed"}

\* VoteService._submit_to_blockchain: the blockchain_result it returns; a failed
\* call is caught and answered with tx_id None.
_submit_to_blockchain(outcome) ==
    IF outcome = "recorded" THEN [tx_id |-> Len(ledger) + 1] ELSE [tx_id |-> NoTx]

\* submit_vote, "Submit to blockchain"
SubmitToBlockchain(q, encrypted_vote, outcome) ==
    /\ At(q, "ledger")
    /\ LET blockchain_result == _submit_to_blockchain(outcome) IN
         /\ ledger' = IF outcome = "recorded"
                      THEN Append(ledger, LedgerEntry("VOTE", q.nullifier, encrypted_vote))
                      ELSE ledger
         /\ Continue(q, [q EXCEPT !.pc = "participation",
                                  !.encrypted_vote = encrypted_vote,
                                  !.tx = blockchain_result.tx_id])
    /\ UNCHANGED <<now, election, tokens, receipts, participations, audit, submits, accepted, cgs, tree>>

\* submit_vote, "Create receipt" up to the participation lookup: the receipt is
\* pending in the session, the lookup reads the committed rows.
SubmitReadParticipation(q) ==
    /\ At(q, "participation")
    /\ ReadOnlyStep
    /\ UNCHANGED submits
    /\ LET rows == _get_voter_participation(_get_voter_hash(q.user_id, ElectionId), q.period) IN
         IF Cardinality(rows) > 1 THEN Finish(q, "error")
         ELSE IF rows = {} THEN Continue(q, [q EXCEPT !.pc = "commit"])
         ELSE LET i == CHOOSE i \in rows : TRUE IN
                Continue(q, [q EXCEPT !.pc = "commit", !.part = i,
                                      !.part_total = participations[i].total_votes_cast,
                                      !.part_votes = participations[i].votes_by_candidate])

\* The VoteReceipt submit_vote builds; the verification code is unique.
NewReceipt(q) ==
    [verification_code |-> Len(receipts) + 1,
     nullifier_hash |-> q.nullifier,
     encrypted_vote_hash |-> Hash(q.encrypted_vote),
     blockchain_tx_id |-> q.tx,
     confirmed |-> q.tx # NoTx,
     voting_period |-> q.period]

\* "Update voter participation": the row read is rewritten with the total read
\* plus this vote, or a new row is added.
record_participation(q) ==
    IF q.part = 0
    THEN Append(participations,
                [voter_hash |-> _get_voter_hash(q.user_id, ElectionId), voting_period |-> q.period,
                 votes_by_candidate |-> add_selections(NoVotes, q.candidate_selections),
                 total_votes_cast |-> votes_count(q.candidate_selections)])
    ELSE [participations EXCEPT
            ![q.part].total_votes_cast = q.part_total + votes_count(q.candidate_selections),
            ![q.part].votes_by_candidate = add_selections(q.part_votes, q.candidate_selections)]

\* submit_vote, from "votes_count = 1" to the return: the session's writes reach
\* the tables at db.commit(), all or none.
SubmitCommit(q, committed) ==
    /\ At(q, "commit")
    /\ IF committed
       THEN /\ receipts' = Append(receipts, NewReceipt(q))
            /\ participations' = record_participation(q)
            /\ tokens' = [tokens EXCEPT ![q.token].is_used = TRUE,
                                        ![q.token].used_at = now]
            /\ audit' = Append(audit, AuditEntry("vote_submitted", Hash(q.encrypted_vote)))
            /\ accepted' = [accepted EXCEPT ![q.token] = @ + 1]
            /\ Finish(q, "success")
       ELSE /\ UNCHANGED <<receipts, participations, tokens, audit, accepted>>
            /\ Finish(q, "error")
    /\ UNCHANGED <<now, election, ledger, submits, cgs, tree>>

\* VoteService.get_receipt: the receipts stored under a verification code.
get_receipt(verification_code) ==
    {receipts[i] : i \in {j \in 1..Len(receipts) :
                            receipts[j].verification_code = verification_code}}

\* ------------------------------------------------------------ verification
\* "" where a hash is expected.
NoHash == <<"", NoCiphertext>>

\* FabricClient.query_chaincode("GetTallyResult"): the development client
\* answers empty counts, "" and "" (json.loads refuses ""), a connected network
\* the result last stored.
MockTallyResult == TallyResult(<< >>, NoHash, DecryptionProof(FALSE, NoHash))
GetTallyResultAnswers ==
    LET stored == SelectSeq(ledger, LAMBDA entry : entry.type = "TALLY")
    IN {MockTallyResult} \cup
       (IF stored = << >> THEN {} ELSE {stored[Len(stored)].payload})

\* FabricClient.query_chaincode("VerifyVote", [election_id, nullifier, hash]):
\* the development client answers verified, a connected network whether a VOTE
\* entry with that nullifier and payload hash is recorded.
VerifyVoteAnswers(nullifier, encrypted_vote_hash) ==
    {TRUE, \E i \in 1..Len(ledger) :
                /\ ledger[i].type = "VOTE"
                /\ ledger[i].nullifier = nullifier
                /\ Hash(ledger[i].payload) = encrypted_vote_hash}

\* VerificationService._verify_homomorphic_sum
_verify_homomorphic_sum(encrypted_votes, expected_hash) ==
    IF encrypted_votes = << >> THEN TRUE
    ELSE LET aggregated == aggregate_from(Head(encrypted_votes), Tail(encrypted_votes))
         IN IF aggregated.kind = "raised" THEN FALSE
            ELSE Hash(aggregated) = expected_hash

\* VerificationService._verify_decryption_proof / CGSProtocol.verify_decryption_proof:
\* vote_counts is not read.
_verify_decryption_proof(aggregated_hash, decryption_proof, vote_counts) ==
    decryption_proof.parses /\ decryption_proof.ciphertext_hash = aggregated_hash

\* sum(vote_counts.values())
RECURSIVE SumCounts(_)
SumCounts(vote_counts) ==
    IF vote_counts = << >> THEN 0 ELSE Head(vote_counts) + SumCounts(Tail(vote_counts))

VerificationFrame ==
    UNCHANGED <<now, election, tokens, receipts, participations, audit, ledger, req,
                submits, accepted, cgs, tree>>

\* VerificationService.verify_tallied_as_recorded
verify_tallied_as_recorded(id) ==
    /\ VerificationFrame
    /\ IF ~get_election(id)
       THEN last' = Response("verify_tallied_as_recorded", "Election not found")
       ELSE IF election.status # "completed"
       THEN last' = Response("verify_tallied_as_recorded", "Election tally not complete")
       ELSE \E recorded_votes \in GetAllVotesAnswers, tally_result \in GetTallyResultAnswers :
              LET homomorphic_valid ==
                      _verify_homomorphic_sum(recorded_votes, tally_result.aggregated_hash)
                  zkp_valid ==
                      _verify_decryption_proof(tally_result.aggregated_hash,
                                               tally_result.decryption_proof,
                                               tally_result.vote_counts)
                  total_recorded == Len(recorded_votes)
                  total_tallied == SumCounts(tally_result.vote_counts)
              IN last' = Response("verify_tallied_as_recorded",
                                  IF homomorphic_valid /\ zkp_valid
                                     /\ total_recorded = total_tallied
                                  THEN "verified" ELSE "not verified")

\* VerificationService.verify_cast_as_intended: "verified" is True once the
\* receipt and its election are found; the ledger's answer only fills
\* blockchain_confirmed.
verify_cast_as_intended(verification_code) ==
    /\ VerificationFrame
    /\ LET found == get_receipt(verification_code) IN
         IF found = {}
         THEN last' = Response("verify_cast_as_intended", "Verification code not found")
         ELSE IF Cardinality(found) > 1
         THEN last' = Response("verify_cast_as_intended", "error")
         ELSE IF ~election.exists
         THEN last' = Response("verify_cast_as_intended", "Election not found")
         ELSE LET receipt == CHOOSE r \in found : TRUE IN
              \E blockchain_verified \in
                    VerifyVoteAnswers(receipt.nullifier_hash, receipt.encrypted_vote_hash) :
                last' = Response("verify_cast_as_intended",
                                 IF blockchain_verified THEN "verified, blockchain confirmed"
                                 ELSE "verified, blockchain not confirmed")

\* ------------------------------------------------------------- CGS protocol
\* CGSProtocol.DEFAULT_P, scaled to the checker's integers: a safe prime
\* p = 2q + 1 with p = 7 (mod 8), so that DEFAULT_G = 2 generates the subgroup
\* of prime order q, as it does for the MODP prime of the code; 23 is the
\* smallest such prime whose q exceeds the five share indices.
DEFAULT_P == 23
DEFAULT_G == 2

\* _discrete_log's max_value, scaled with the group: like 10000000 in the code
\* it is no perfect square and ceil(sqrt(max_value))^2 - 1 lies below q.
max_value == 8

\* CGSProtocol.__init__: self.q = (self.p - 1) // 2
cgs_q == (DEFAULT_P - 1) \div 2

\* Python's three-argument pow: modular exponentiation, and for a negative
\* exponent the power of the modular inverse (the moduli here are prime and the
\* bases non-zero, so the inverse exists and pow does not raise).
RECURSIVE pow(_, _, _)
pow(base, exp, mod) ==
    IF exp < 0
    THEN pow(CHOOSE y \in 1..mod - 1 : (base * y) % mod = 1, -exp, mod)
    ELSE IF exp = 0 THEN 1 % mod
    ELSE (base * pow(base, exp - 1, mod)) % mod

\* str(n) of a non-negative int: its decimal digits, most significant first.
RECURSIVE str(_)
str(n) == IF n < 10 THEN <<n>> ELSE Append(str(n \div 10), n % 10)

\* int(s) of a decimal digit string.
RECURSIVE int(_)
int(s) == IF Len(s) = 0 THEN 0
          ELSE 10 * int(SubSeq(s, 1, Len(s) - 1)) + s[Len(s)]

\* The dataclasses of cgs_protocol.py.
PublicKey(p, q, g, h) == [p |-> p, q |-> q, g |-> g, h |-> h]
Ciphertext(c1, c2) == [c1 |-> c1, c2 |-> c2]
KeyShare(index, share, verification_point) ==
    [index |-> index, share |-> share, verification_point |-> verification_point]

\* What a call gives back: a value, or the exception it raised.
Returns(value) == [raised |-> FALSE, value |-> value]
ValueError == [raised |-> TRUE, value |-> None]

\* CGSProtocol.generate_keypair; x is the draw secrets.randbelow(q - 2) + 2.
generate_keypair(x) ==
    [public_key |-> PublicKey(DEFAULT_P, cgs_q, DEFAULT_G, pow(DEFAULT_G, x, DEFAULT_P)),
     private_key |-> [x |-> x]]

\* The polynomial of generate_threshold_keys evaluated at point i:
\* share_value = (share_value + coef * pow(i, j, q)) % q over enumerate(coefficients).
RECURSIVE share_value(_, _, _)
share_value(coefficients, i, upto) ==
    IF upto = 0 THEN 0
    ELSE (share_value(coefficients, i, upto - 1)
            + coefficients[upto] * pow(i, upto - 1, cgs_q)) % cgs_q

\* CGSProtocol.generate_threshold_keys; x and randoms are the draws of
\* generate_keypair and of secrets.randbelow(q) for the other coefficients.
generate_threshold_keys(threshold, total_shares, x, randoms) ==
    LET keypair == generate_keypair(x)
        coefficients == <<x>> \o randoms
    IN [raised |-> threshold > total_shares,
        public_key |-> keypair.public_key,
        shares |-> [i \in 1..total_shares |->
                      LET value == share_value(coefficients, i, Len(coefficients))
                      IN KeyShare(i, value, pow(DEFAULT_G, value, DEFAULT_P))]]

\* CGSProtocol.encrypt with the randomness given.
encrypt(public_key, message, randomness) ==
    LET c1 == pow(public_key.g, randomness, public_key.p)
        h_r == pow(public_key.h, randomness, public_key.p)
        g_m == pow(public_key.g, message, public_key.p)
    IN Ciphertext(c1, (h_r * g_m) % public_key.p)

\* A faulty variant of _discrete_log that answers 0 where the search finds
\* nothing; C31 tells it from the code.
_discrete_log_never_raises(g_m, public_key) ==
    LET found == {v \in 0..max_value : pow(public_key.g, v, public_key.p) = g_m}
    IN IF found = {} THEN Returns(0) ELSE Returns(CHOOSE v \in found : TRUE)

\* CGSProtocol._discrete_log: baby steps g^j for j < m (a later j replaces an
\* earlier one under the same key), then the first giant step i whose gamma is
\* a baby step gives i * m + j; m is math.ceil(math.sqrt(max_value)).
_discrete_log(g_m, public_key) ==
    LET m == CHOOSE k \in 1..max_value :
                 k * k >= max_value /\ (k - 1) * (k - 1) < max_value
        baby_steps(y) == {j \in 0..m - 1 : pow(public_key.g, j, public_key.p) = y}
        g_m_inv == pow(public_key.g, -m, public_key.p)
        gamma(i) == (g_m * pow(g_m_inv, i, public_key.p)) % public_key.p
        found == {i \in 0..m - 1 : baby_steps(gamma(i)) # {}}
    IN IF found = {} THEN ValueError
       ELSE LET i == CHOOSE a \in found : \A b \in found : a <= b
                j == CHOOSE a \in baby_steps(gamma(i)) :
                       \A b \in baby_steps(gamma(i)) : a >= b
            IN Returns(i * m + j)

\* A faulty variant of decrypt that divides c2 by c1 instead of c1^x; C29 tells
\* it from the code.
decrypt_without_key(ciphertext, private_key, public_key) ==
    _discrete_log((ciphertext.c2 * pow(ciphertext.c1, -1, public_key.p)) % public_key.p,
                  public_key)

\* CGSProtocol.decrypt
decrypt(ciphertext, private_key, public_key) ==
    LET c1_x == pow(ciphertext.c1, private_key.x, public_key.p)
        c1_x_inv == pow(c1_x, -1, public_key.p)
        g_m == (ciphertext.c2 * c1_x_inv) % public_key.p
    IN _discrete_log(g_m, public_key)

\* CGSProtocol._serialize_ciphertext and _deserialize_ciphertext: the JSON
\* object of the two decimal strings.
_serialize_ciphertext(ct) == [c1 |-> str(ct.c1), c2 |-> str(ct.c2)]
_deserialize_ciphertext(s) == Ciphertext(int(s.c1), int(s.c2))

\* A faulty variant of homomorphic_add that keeps the first operand's c1; C30
\* tells it from the code.
cgs_homomorphic_add_keeps_c1(c1, c2) ==
    LET ct1 == _deserialize_ciphertext(c1)
        ct2 == _deserialize_ciphertext(c2)
    IN _serialize_ciphertext(Ciphertext(ct1.c1, (ct1.c2 * ct2.c2) % DEFAULT_P))

\* CGSProtocol.homomorphic_add, on serialized ciphertexts.
cgs_homomorphic_add(c1, c2) ==
    LET ct1 == _deserialize_ciphertext(c1)
        ct2 == _deserialize_ciphertext(c2)
    IN _serialize_ciphertext(Ciphertext((ct1.c1 * ct2.c1) % DEFAULT_P,
                                        (ct1.c2 * ct2.c2) % DEFAULT_P))

\* CGSProtocol._lagrange_coefficient: the loop over indices, up to position upto.
\* <<numerator, denominator>>.
RECURSIVE lagrange_terms(_, _, _, _)
lagrange_terms(i, indices, q, upto) ==
    IF upto = 0 THEN <<1, 1>>
    ELSE LET so_far == lagrange_terms(i, indices, q, upto - 1)
             j == indices[upto]
         IN IF i # j
            THEN <<(so_far[1] * (-j)) % q, (so_far[2] * (i - j)) % q>>
            ELSE so_far
_lagrange_coefficient(i, indices, q) ==
    LET terms == lagrange_terms(i, indices, q, Len(indices))
    IN (terms[1] * pow(terms[2], -1, q)) % q

\* The loop of threshold_decrypt over the partial decryptions, up to position
\* upto: combined = (combined * pow(d_i, lambda_i, p)) % p.
RECURSIVE combined_partials(_, _, _, _)
combined_partials(ciphertext, shares, public_key, upto) ==
    IF upto = 0 THEN 1
    ELSE LET indices == [n \in 1..Len(shares) |-> shares[n].index]
             d_i == pow(ciphertext.c1, shares[upto].share, public_key.p)
             lambda_i == _lagrange_coefficient(shares[upto].index, indices, public_key.q)
         IN (combined_partials(ciphertext, shares, public_key, upto - 1)
               * pow(d_i, lambda_i, public_key.p)) % public_key.p

\* A faulty variant of threshold_decrypt that combines the partial decryptions
\* without their Lagrange coefficients; C27 tells it from the code.
RECURSIVE plain_product(_, _, _, _)
plain_product(ciphertext, shares, public_key, upto) ==
    IF upto = 0 THEN 1
    ELSE (plain_product(ciphertext, shares, public_key, upto - 1)
            * pow(ciphertext.c1, shares[upto].share, public_key.p)) % public_key.p
threshold_decrypt_unweighted(ciphertext, shares, public_key) ==
    _discrete_log((ciphertext.c2
                     * pow(plain_product(ciphertext, shares, public_key, Len(shares)),
                           -1, public_key.p)) % public_key.p,
                  public_key)

\* CGSProtocol.threshold_decrypt
threshold_decrypt(ciphertext, shares, public_key) ==
    LET combined == combined_partials(ciphertext, shares, public_key, Len(shares))
        combined_inv == pow(combined, -1, public_key.p)
        g_m == (ciphertext.c2 * combined_inv) % public_key.p
    IN _discrete_log(g_m, public_key)

\* CGSProtocol._serialize_key_share and _deserialize_key_share
_serialize_key_share(share) ==
    [index |-> share.index, share |-> str(share.share),
     verification_point |-> str(share.verification_point)]
_deserialize_key_share(s) ==
    KeyShare(s.index, int(s.share), int(s.verification_point))

\* The loop of combine_key_shares, up to position upto.
RECURSIVE combined_secret(_, _)
combined_secret(shares, upto) ==
    IF upto = 0 THEN 0
    ELSE LET indices == [n \in 1..Len(shares) |-> shares[n].index]
             lambda_i == _lagrange_coefficient(shares[upto].index, indices, cgs_q)
         IN (combined_secret(shares, upto - 1) + shares[upto].share * lambda_i) % cgs_q

\* CGSProtocol.combine_key_shares, on serialized shares: it returns a
\* PrivateKey for any list of shares.
combine_key_shares(key_shares) ==
    LET shares == [n \in 1..Len(key_shares) |-> _deserialize_key_share(key_shares[n])]
    IN Returns([x |-> combined_secret(shares, Len(shares))])

\* CGSProtocol.generate_encryption_proof; draws holds k, fake_challenge and
\* fake_response, the draws of secrets.randbelow(q), and total_challenge, the
\* SHA-256 digest of c1:c2:a:b:seed reduced modulo q.
generate_encryption_proof(ciphertext, message, randomness, public_key, draws) ==
    LET real_challenge == (draws.total_challenge - draws.fake_challenge) % public_key.q
        real_response == (draws.k - real_challenge * randomness) % public_key.q
    IN IF message = 0
       THEN [c0 |-> real_challenge, c1 |-> draws.fake_challenge,
             r0 |-> real_response, r1 |-> draws.fake_response, seed |-> "seed"]
       ELSE [c0 |-> draws.fake_challenge, c1 |-> real_challenge,
             r0 |-> draws.fake_response, r1 |-> real_response, seed |-> "seed"]

\* CGSProtocol.verify_encryption_proof; digests gives the SHA-256 digest
\* reduced modulo q of the challenge input the prover hashed (input, value) and
\* of any other input (other). a1 and b1 are computed and not used.
verify_encryption_proof(ciphertext, proof, public_key, digests) ==
    LET a0 == (pow(public_key.g, proof.r0, public_key.p)
                 * pow(ciphertext.c1, proof.c0, public_key.p)) % public_key.p
        b0 == (pow(public_key.h, proof.r0, public_key.p)
                 * pow(ciphertext.c2, proof.c0, public_key.p)) % public_key.p
        challenge_input == <<ciphertext.c1, ciphertext.c2, a0, b0, proof.seed>>
        expected_challenge == IF challenge_input = digests.input THEN digests.value
                              ELSE digests.other
    IN (proof.c0 + proof.c1) % public_key.q = expected_challenge

\* No key, no ciphertext, no output.
NoCgs == [public_key |-> PublicKey(DEFAULT_P, cgs_q, DEFAULT_G, 0), private_key |-> [x |-> 0],
          threshold |-> 0, shares |-> << >>,
          message |-> 0, addend |-> 0, ciphertext |-> Ciphertext(0, 0), terms |-> 0,
          g_m |-> 0,
          proof |-> [c0 |-> 0, c1 |-> 0, r0 |-> 0, r1 |-> 0, seed |-> None],
          digest |-> [input |-> << >>, value |-> 0], changed |-> None,
          reversed |-> _serialize_ciphertext(Ciphertext(0, 0)),
          op |-> "none", used |-> {}, output |-> [raised |-> FALSE, value |-> None]]

\* ------------------------------------------------------------- Merkle tree
\* A str is a sequence of units: a character, or the hexdigest of a SHA-256
\* hash, whose 64 characters stand as one unit that carries the bytes hashed
\* (distinct inputs give distinct digests).
Chars(c) == <<[unit |-> c, of |-> << >>]>>
sha256(bytes) == <<[unit |-> "sha256", of |-> bytes]>>

\* MerkleTree._hash_pair: the digest of the concatenation left + right.
_hash_pair(left, right) == sha256(left \o right)

\* MerkleTree._compute_zeros: zeros[level].
RECURSIVE _compute_zeros(_)
_compute_zeros(level) ==
    IF level = 0 THEN sha256(Chars("0"))
    ELSE _hash_pair(_compute_zeros(level - 1), _compute_zeros(level - 1))

\* A faulty variant of add_leaf that checks index > 2 ** depth; C35 tells it
\* from the code.
add_leaf_off_by_one(t, commitment) ==
    IF Len(t.leaves) > 2 ^ t.depth
    THEN [leaves |-> t.leaves, output |-> ValueError]
    ELSE [leaves |-> Append(t.leaves, commitment), output |-> Returns(Len(t.leaves))]

\* MerkleTree.add_leaf: the leaves after the call and what it gave back.
add_leaf(t, commitment) ==
    LET index == Len(t.leaves)
    IN IF index >= 2 ^ t.depth
       THEN [leaves |-> t.leaves, output |-> ValueError]
       ELSE [leaves |-> Append(t.leaves, commitment), output |-> Returns(index)]

\* current_level of get_root and get_proof after `level` rounds of the loop:
\* the leaves padded with zeros[0] to 2 ** depth, then pairs hashed upwards.
RECURSIVE current_level(_, _)
current_level(t, level) ==
    IF level = 0
    THEN t.leaves \o [n \in 1..(2 ^ t.depth - Len(t.leaves)) |-> _compute_zeros(0)]
    ELSE LET below == current_level(t, level - 1)
         IN [n \in 1..((Len(below) + 1) \div 2) |->
               LET i == 2 * (n - 1)
               IN _hash_pair(below[i + 1],
                             IF i + 1 < Len(below) THEN below[i + 2]
                             ELSE _compute_zeros(level - 1))]

\* MerkleTree.get_root
get_root(t) ==
    IF t.leaves = << >> THEN _compute_zeros(t.depth)
    ELSE current_level(t, t.depth)[1]

\* MerkleTree.get_proof
get_proof(t, index) ==
    IF index >= Len(t.leaves)
    THEN [raised |-> TRUE, path |-> << >>, indices |-> << >>]
    ELSE [raised |-> FALSE,
          path |-> [n \in 1..t.depth |->
                      LET level == n - 1
                          nodes == current_level(t, level)
                          current_index == index \div (2 ^ level)
                          sibling_index == IF current_index % 2 = 0
                                           THEN current_index + 1
                                           ELSE current_index - 1
                      IN IF sibling_index < Len(nodes) THEN nodes[sibling_index + 1]
                         ELSE _compute_zeros(level)],
          indices |-> [n \in 1..t.depth |->
                         IF (index \div (2 ^ (n - 1))) % 2 = 0 THEN 0 ELSE 1]]

\* The loop of verify_proof over zip(path, indices), up to position upto.
RECURSIVE climb(_, _, _, _)
climb(leaf, path, indices, upto) ==
    IF upto = 0 THEN leaf
    ELSE LET current == climb(leaf, path, indices, upto - 1)
         IN IF indices[upto] = 0 THEN _hash_pair(current, path[upto])
            ELSE _hash_pair(path[upto], current)

\* A faulty variant of verify_proof that puts the sibling on the right at
\* every level; C34 tells it from the code.
verify_proof_ignores_side(leaf, path, indices, root) ==
    climb(leaf, path, [n \in 1..Len(indices) |-> 0],
          IF Len(path) < Len(indices) THEN Len(path) ELSE Len(indices)) = root

\* MerkleTree.verify_proof
verify_proof(leaf, path, indices, root) ==
    climb(leaf, path, indices,
          IF Len(path) < Len(indices) THEN Len(path) ELSE Len(indices)) = root

\* No tree.
NoTree == [depth |-> 0, leaves |-> << >>, op |-> "none", index |-> 0,
           path |-> << >>, indices |-> << >>, root |-> << >>, changed |-> -1,
           output |-> [raised |-> FALSE, value |-> None]]

\* ----------------------------------------------------- lifecycle specification
\* create_election: a draft election with the request's window and candidates.
NewElection(start_time, end_time, candidates) ==
    [exists |-> TRUE, status |-> "draft",
     start_time |-> start_time, end_time |-> end_time,
     voting_mode |-> "single", max_candidates_per_voter |-> 1,
     max_votes_per_candidate |-> 1, reset_interval_hours |-> 24,
     voter_merkle_root |-> None, election_public_key |-> None,
     election_private_key_shares |-> 0,
     candidates |-> candidates]

\* No row of vote_tokens for a raw token.
NoToken == [exists |-> FALSE, expires_at |-> NoTime, is_used |-> FALSE,
            used_at |-> NoTime, voter_ref |-> None]

\* The raw tokens of a run with one token issued at most.
OneToken == {TokenOrder[1]}

InitStore ==
    /\ now = 0
    /\ tokens = [t \in OneToken |-> NoToken]
    /\ receipts = << >>
    /\ participations = << >>
    /\ audit = << >>
    /\ ledger = << >>
    /\ req = EmptyBag
    /\ submits = 0
    /\ accepted = [t \in OneToken |-> 0]
    /\ last = NoResponse

InitLifecycle ==
    /\ InitStore
    /\ cgs = NoCgs
    /\ tree = NoTree
    /\ \E candidates \in MIN_CANDIDATES..MaxCandidates :
         election = NewElection(TickMinutes, 2 * TickMinutes, candidates)

\* The clock advances.
Tick ==
    /\ now < LastTime
    /\ now' = now + TickMinutes
    /\ last' = NoResponse
    /\ UNCHANGED <<election, tokens, receipts, participations, audit, ledger, req,
                   submits, accepted, cgs, tree>>

NextLifecycle ==
    \/ Tick
    \/ \E id \in ElectionIds, data \in ElectionUpdates : update_election(id, data)
    \/ \E id \in ElectionIds, s \in Statuses : update_status(id, s)
    \/ \E id \in ElectionIds, n \in {ELECTION_KEY_THRESHOLD, KEY_SHARES_REQUIRED} :
         set_election_keys(id, n)
    \/ \E id \in ElectionIds : set_voter_eligibility(id)
    \/ \E id \in ElectionIds : add_candidate(id)
    \/ \E id \in ElectionIds, known \in BOOLEAN : remove_candidate(id, known)
    \/ \E id \in ElectionIds : delete_election(id)
    \/ \E id \in ElectionIds, key_shares \in KeyShareLists, share_proofs \in ShareProofs :
         start_tally(id, key_shares, share_proofs)

SpecLifecycle == InitLifecycle /\ [][NextLifecycle]_vars

\* ---------------------------------------------------- voting specification
\* An election that has been set up and opened: keys, Merkle root, candidates,
\* window [0, 2 ticks]. create_election leaves voting_mode and
\* reset_interval_hours at the column defaults (single, 24) and no service
\* writes them; the rows of the other modes, and a reset interval of one hour,
\* are what the mode branches of VoteService are written for.
OpenElection(mode) ==
    [NewElection(0, 2 * TickMinutes, MaxCandidates) EXCEPT
        !.status = "active", !.voting_mode = mode, !.reset_interval_hours = 1,
        !.voter_merkle_root = "root", !.election_public_key = "pk",
        !.election_private_key_shares = KEY_SHARES_REQUIRED]

Init ==
    /\ InitStore
    /\ cgs = NoCgs
    /\ tree = NoTree
    /\ \E mode \in VotingModes : election = OpenElection(mode)

Next ==
    \/ Tick
    \/ \E u \in Users, id \in ElectionIds : issue_vote_token(u, id)
    \/ \E token \in DOMAIN tokens : SubmitCheckToken(token)
    \/ \E q \in InFlight : SubmitCheckElection(q)
    \/ \E q \in InFlight, user_id \in SubmitUsers :
         SubmitCheckEligibility(q, user_id, NoSelections)
    \/ \E q \in InFlight, nullifier \in Nullifiers, proofs \in ProofKinds :
         SubmitCheckNullifier(q, nullifier, proofs)
    \/ \E q \in InFlight, encrypted_vote \in Ciphertexts, outcome \in InvokeOutcomes :
         SubmitToBlockchain(q, encrypted_vote, outcome)
    \/ \E q \in InFlight : SubmitReadParticipation(q)
    \/ \E q \in InFlight, committed \in BOOLEAN : SubmitCommit(q, committed)
    \/ \E s \in valid_transitions(election.status) \cap {"closed", "tallying"} :
         update_status(ElectionId, s)

Spec == Init /\ [][Next]_vars

\* --------------------------------------------------- service specification
\* VoteService with as many tokens as a voter asks for, two here: submit_vote
\* is called by the submit endpoint, without user_id and candidate_selections,
\* or by a caller that passes the voter's user_id and candidate_selections.
SubmitCallers ==
    {<<None, NoSelections>>}
      \cup {<<user_id, candidate_selections>> :
                user_id \in Users, candidate_selections \in CandidateSelections}

InitService ==
    /\ now = 0
    /\ tokens = [t \in Tokens |-> NoToken]
    /\ receipts = << >>
    /\ participations = << >>
    /\ audit = << >>
    /\ ledger = << >>
    /\ req = EmptyBag
    /\ submits = 0
    /\ accepted = [t \in Tokens |-> 0]
    /\ last = NoResponse
    /\ cgs = NoCgs
    /\ tree = NoTree
    /\ \E mode \in VotingModes : election = OpenElection(mode)

NextService ==
    \/ Tick
    \/ \E u \in Users, id \in ElectionIds : issue_vote_token(u, id)
    \/ \E token \in DOMAIN tokens : SubmitCheckToken(token)
    \/ \E q \in InFlight : SubmitCheckElection(q)
    \/ \E q \in InFlight, caller \in SubmitCallers :
         SubmitCheckEligibility(q, caller[1], caller[2])
    \/ \E q \in InFlight, nullifier \in Nullifiers, proofs \in ProofKinds :
         SubmitCheckNullifier(q, nullifier, proofs)
    \/ \E q \in InFlight, encrypted_vote \in Ciphertexts, outcome \in InvokeOutcomes :
         SubmitToBlockchain(q, encrypted_vote, outcome)
    \/ \E q \in InFlight : SubmitReadParticipation(q)
    \/ \E q \in InFlight, committed \in BOOLEAN : SubmitCommit(q, committed)

SpecService == InitService /\ [][NextService]_vars

\* ----------------------------------------------------- tally specification
\* The tally and the verification services over a closed election whose ledger
\* and receipts are given: every content below is one the ledger can hold.
\* A VOTE entry as the i-th transaction of the ledger.
VoteEntryAt(i, nullifier, payload) ==
    [type |-> "VOTE", nullifier |-> nullifier, payload |-> payload, tx |-> i]

\* The ballots recorded, as <<nullifier, encrypted_vote>>: none; one; the five
\* ballots (0,1,0), (1,0,0), (1,0,0), (0,0,1), (0,0,1); two single ciphertexts
\* of two voters; one single ciphertext recorded twice under one nullifier.
RecordedBallots ==
    {<< >>,
     << <<"n1", UnitBallot(1)>> >>,
     << <<"n1", UnitBallot(2)>>, <<"n2", UnitBallot(1)>>, <<"n3", UnitBallot(1)>>,
        <<"n4", UnitBallot(3)>>, <<"n5", UnitBallot(3)>> >>,
     << <<"n1", ScalarBallot(1, 1)>>, <<"n2", ScalarBallot(1, 4)>> >>,
     << <<"n1", ScalarBallot(1, 1)>>, <<"n1", ScalarBallot(1, 1)>> >>}

VoteLedger(ballots) ==
    [i \in 1..Len(ballots) |-> VoteEntryAt(i, ballots[i][1], ballots[i][2])]

\* The number of recorded vector ballots whose bit for a candidate is 1.
BallotsFor(entries, candidate) ==
    Cardinality({i \in 1..Len(entries) :
                    /\ entries[i].type = "VOTE"
                    /\ entries[i].payload.kind = "vector"
                    /\ entries[i].payload.bits[candidate] = 1})
CountsOf(entries) == [c \in 1..MaxCandidates |-> BallotsFor(entries, c)]

\* Counts with the same total given to other candidates: each candidate is
\* published with the count of the next one.
ShiftedCounts(counts) ==
    [c \in 1..Len(counts) |-> counts[(c % Len(counts)) + 1]]

\* The tally results a ledger with these VOTE entries may hold: the counts of
\* the ballots or shifted counts, under the hash of the ballots' aggregate, with
\* a decryption proof that names that hash or with one json.loads refuses.
PublishedResults(entries) ==
    LET votes == [i \in 1..Len(entries) |-> entries[i].payload]
        aggregated_hash == Hash(_aggregate_votes(votes))
    IN {TallyResult(vote_counts, aggregated_hash, decryption_proof) :
           vote_counts \in {CountsOf(entries), ShiftedCounts(CountsOf(entries))},
           decryption_proof \in {DecryptionProof(TRUE, aggregated_hash),
                                 DecryptionProof(FALSE, NoHash)}}

\* The receipts stored: none; the receipt of the first recorded ballot; a
\* receipt whose ledger append failed, for a ballot the ledger does not hold.
StoredReceipts(entries) ==
    {<< >>,
     <<[verification_code |-> 1, nullifier_hash |-> "n9",
        encrypted_vote_hash |-> Hash(UnitBallot(2)), blockchain_tx_id |-> NoTx,
        confirmed |-> FALSE, voting_period |-> 0]>>}
    \cup (IF entries = << >> THEN {}
          ELSE {<<[verification_code |-> 1, nullifier_hash |-> entries[1].nullifier,
                   encrypted_vote_hash |-> Hash(entries[1].payload),
                   blockchain_tx_id |-> entries[1].tx,
                   confirmed |-> TRUE, voting_period |-> 0]>>})

InitTally ==
    /\ now = 2 * TickMinutes
    /\ tokens = [t \in OneToken |-> NoToken]
    /\ participations = << >>
    /\ audit = << >>
    /\ req = EmptyBag
    /\ submits = 0
    /\ accepted = [t \in OneToken |-> 0]
    /\ last = NoResponse
    /\ cgs = NoCgs
    /\ tree = NoTree
    /\ election = [OpenElection("single") EXCEPT !.status = "closed"]
    /\ \E ballots \in RecordedBallots :
         LET entries == VoteLedger(ballots) IN
           /\ receipts \in StoredReceipts(entries)
           /\ \/ ledger = entries
              \/ \E result \in PublishedResults(entries) :
                   ledger = Append(entries, [type |-> "TALLY", nullifier |-> None,
                                             payload |-> result,
                                             tx |-> Len(entries) + 1])

NextTally ==
    \/ \E id \in ElectionIds, key_shares \in KeyShareLists, share_proofs \in ShareProofs :
         start_tally(id, key_shares, share_proofs)
    \/ \E s \in {"tallying", "completed"} : update_status(ElectionId, s)
    \/ \E id \in ElectionIds : verify_tallied_as_recorded(id)
    \/ \E verification_code \in 1..2 : verify_cast_as_intended(verification_code)

SpecTally == InitTally /\ [][NextTally]_vars

\* ----------------------------------------------------- issuance specification
\* issue_vote_token as the request tasks run it: the election and the
\* "existing token" queries, then, after other requests may have run, the
\* insert and db.commit(). A call past its queries keeps the user_id it serves.
IssueCall(user_id) == [NewCall(None) EXCEPT !.pc = "issue", !.user_id = user_id]
\* The authenticated users who ask for tokens.
Voters == {"v1", "v2"}
\* The clock moves on by half a token lifetime.
HalfTick ==
    /\ now + (TickMinutes \div 2) <= LastTime
    /\ now' = now + (TickMinutes \div 2)
    /\ last' = NoResponse
    /\ UNCHANGED <<election, tokens, receipts, participations, audit, ledger, req,
                   submits, accepted, cgs, tree>>
IssuesInFlight == {q \in InFlight : q.pc = "issue"}
IssuesPending == BagCardinality(req) - BagCardinality(req (-) SetToBag(IssuesInFlight))

\* issue_vote_token, "Verify election exists and is active" and "Check if user
\* already has an unused token for this election"
IssueCheckExisting(user_id, id) ==
    /\ UNCHANGED <<now, election, tokens, receipts, participations, audit, ledger,
                   submits, accepted, cgs, tree>>
    /\ IF ~get_election(id) \/ ~is_active(election, now)
       THEN /\ last' = Response("issue_vote_token", "fail")
            /\ req' = req
       ELSE IF Cardinality(existing_tokens) > 1
       THEN /\ last' = Response("issue_vote_token", "error")
            /\ req' = req
       ELSE IF existing_tokens # {}
       THEN /\ last' = Response("issue_vote_token", "fail")
            /\ req' = req
       ELSE /\ BagCardinality(req) < Cardinality(Requests)
            /\ Cardinality(FreshTokens) > IssuesPending
            /\ req' = req (+) SetToBag({IssueCall(user_id)})
            /\ last' = NoResponse

\* issue_vote_token, from "Generate token" to the return
IssueCommit(q) ==
    /\ At(q, "issue")
    /\ UNCHANGED <<now, election, receipts, participations, ledger, submits, accepted, cgs, tree>>
    /\ LET token == generate_vote_token IN
         /\ tokens' = [tokens EXCEPT ![token] =
                         [exists |-> TRUE, expires_at |-> now + TOKEN_TTL_MINUTES,
                          is_used |-> FALSE, used_at |-> NoTime,
                          voter_ref |-> q.user_id]]
         /\ audit' = Append(audit, AuditEntry("token_issued", Hash(Hash(token))))
    /\ req' = req (-) SetToBag({q})
    /\ last' = Response("issue_vote_token", "ok")

InitIssue ==
    /\ now = 0
    /\ tokens = [t \in Tokens |-> NoToken]
    /\ receipts = << >>
    /\ participations = << >>
    /\ audit = << >>
    /\ ledger = << >>
    /\ req = EmptyBag
    /\ submits = 0
    /\ accepted = [t \in Tokens |-> 0]
    /\ last = NoResponse
    /\ cgs = NoCgs
    /\ tree = NoTree
    /\ election = OpenElection("single")

NextIssue ==
    \/ HalfTick
    \/ \E u \in Voters, id \in ElectionIds : IssueCheckExisting(u, id)
    \/ \E q \in InFlight : IssueCommit(q)
    \/ \E token \in DOMAIN tokens : SubmitCheckToken(token)
    \/ \E q \in InFlight : SubmitCheckElection(q)
    \/ \E q \in InFlight, user_id \in SubmitUsers :
         SubmitCheckEligibility(q, user_id, NoSelections)
    \/ \E q \in InFlight, nullifier \in Nullifiers, proofs \in ProofKinds :
         SubmitCheckNullifier(q, nullifier, proofs)
    \/ \E q \in InFlight, encrypted_vote \in Ciphertexts, outcome \in InvokeOutcomes :
         SubmitToBlockchain(q, encrypted_vote, outcome)
    \/ \E q \in InFlight : SubmitReadParticipation(q)
    \/ \E q \in InFlight, committed \in BOOLEAN : SubmitCommit(q, committed)

SpecIssue == InitIssue /\ [][NextIssue]_vars

\* ------------------------------------------------------- CGS specifications
\* The calls on a CGSProtocol object touch no table and no ledger.
CgsFrame == UNCHANGED <<now, election, tokens, receipts, participations, audit, ledger,
                        req, submits, accepted, last, tree>>

\* The plaintexts and the randomness handed to encrypt: m within the
\* discrete-log bound, r as secrets.randbelow(q - 2) + 2 draws it.
Messages == 0..max_value
Randomness == 2..cgs_q - 1

\* A CGSProtocol object holds p, q and g only and its methods keep nothing
\* between calls, so a run is one key generation followed by calls on fresh
\* values: an encryption, additions to it, and one decryption of the result.
\* ciphertext = cgs.encrypt(public_key, message, randomness)
Encrypt(message, randomness) ==
    /\ cgs.op = "none"
    /\ CgsFrame
    /\ cgs' = [cgs EXCEPT !.message = message, !.addend = 0,
                          !.ciphertext = encrypt(cgs.public_key, message, randomness),
                          !.terms = 1,
                          !.reversed = NoCgs.reversed,
                          !.op = "encrypt", !.used = {}, !.output = NoCgs.output]

\* sum_str = cgs.homomorphic_add(c1_str, c2_str) of the ciphertext at hand and
\* a fresh encryption, and the same call with the operands exchanged.
Add(message, randomness) ==
    /\ cgs.op \in {"encrypt", "homomorphic_add"}
    /\ cgs.terms < MaxTerms
    /\ CgsFrame
    /\ LET c1_str == _serialize_ciphertext(cgs.ciphertext)
           c2_str == _serialize_ciphertext(encrypt(cgs.public_key, message, randomness))
       IN cgs' = [cgs EXCEPT !.message = @ + message, !.addend = message,
                             !.ciphertext =
                                 _deserialize_ciphertext(cgs_homomorphic_add(c1_str, c2_str)),
                             !.terms = @ + 1,
                             !.reversed = cgs_homomorphic_add(c2_str, c1_str),
                             !.op = "homomorphic_add", !.used = {},
                             !.output = NoCgs.output]

\* decrypted = cgs.decrypt(ciphertext, private_key, public_key)
Decrypt ==
    /\ cgs.op \in {"encrypt", "homomorphic_add"}
    /\ CgsFrame
    /\ cgs' = [cgs EXCEPT !.op = "decrypt", !.used = {},
                          !.output = decrypt(cgs.ciphertext, cgs.private_key,
                                             cgs.public_key)]

\* public_key, private_key = cgs.generate_keypair()
InitCgs ==
    /\ InitStore
    /\ tree = NoTree
    /\ election = NewElection(TickMinutes, 2 * TickMinutes, MIN_CANDIDATES)
    /\ \E x \in 2..cgs_q - 1 :
         LET keypair == generate_keypair(x)
         IN cgs = [NoCgs EXCEPT !.public_key = keypair.public_key,
                                !.private_key = keypair.private_key]

\* self._discrete_log(g_m, public_key) on a residue modulo p.
DiscreteLog(g_m) ==
    /\ cgs.op = "none"
    /\ CgsFrame
    /\ cgs' = [cgs EXCEPT !.op = "_discrete_log", !.g_m = g_m,
                          !.output = _discrete_log(g_m, cgs.public_key)]

\* proof = cgs.generate_encryption_proof(ciphertext, message, randomness,
\* public_key) for the encryption of a bit. SHA-256 is a fixed function the
\* model does not compute: the digest of the prover's input is drawn here and
\* kept, the digest of any other input may be any residue modulo q.
GenerateProof(randomness, k, fake_challenge, fake_response, total_challenge) ==
    /\ cgs.op = "encrypt"
    /\ cgs.message \in {0, 1}
    /\ cgs.ciphertext = encrypt(cgs.public_key, cgs.message, randomness)
    /\ CgsFrame
    /\ LET a == pow(cgs.public_key.g, k, cgs.public_key.p)
           b == pow(cgs.public_key.h, k, cgs.public_key.p)
           proof == generate_encryption_proof(cgs.ciphertext, cgs.message, randomness,
                                              cgs.public_key,
                                              [k |-> k, fake_challenge |-> fake_challenge,
                                               fake_response |-> fake_response,
                                               total_challenge |-> total_challenge])
       IN cgs' = [cgs EXCEPT
                    !.op = "generate_encryption_proof", !.proof = proof,
                    !.digest = [input |-> <<cgs.ciphertext.c1, cgs.ciphertext.c2,
                                            a, b, proof.seed>>,
                                value |-> total_challenge]]

\* cgs.verify_encryption_proof(ciphertext, proof, public_key), on the proof and
\* ciphertext as generated (changed = None) or with one element replaced by
\* another value; other is the digest of an input the prover did not hash.
VerifyProof(changed, delta, other) ==
    /\ cgs.op = "generate_encryption_proof"
    /\ CgsFrame
    /\ LET q == cgs.public_key.q
           p == cgs.public_key.p
           proof == [cgs.proof EXCEPT
                       !.c0 = IF changed = "c0" THEN (@ + delta) % q ELSE @,
                       !.c1 = IF changed = "c1" THEN (@ + delta) % q ELSE @,
                       !.r0 = IF changed = "r0" THEN (@ + delta) % q ELSE @,
                       !.r1 = IF changed = "r1" THEN (@ + delta) % q ELSE @]
           ciphertext == [cgs.ciphertext EXCEPT
                            !.c1 = IF changed = "ciphertext.c1" THEN (@ + delta) % p ELSE @,
                            !.c2 = IF changed = "ciphertext.c2" THEN (@ + delta) % p ELSE @]
           digests == [input |-> cgs.digest.input, value |-> cgs.digest.value,
                       other |-> other]
       IN cgs' = [cgs EXCEPT
                    !.op = "verify_encryption_proof", !.changed = changed,
                    !.output = Returns(verify_encryption_proof(ciphertext, proof,
                                                               cgs.public_key,
                                                               digests))]

NextCgs ==
    \/ \E g_m \in 0..DEFAULT_P - 1 : DiscreteLog(g_m)
    \/ \E randomness \in Randomness, k, fake_challenge, fake_response \in {0, 1, cgs_q - 1},
          total_challenge \in {0, 1, cgs_q - 1} :
         GenerateProof(randomness, k, fake_challenge, fake_response, total_challenge)
    \/ \E changed \in {None, "c0", "c1", "r0", "r1", "ciphertext.c1", "ciphertext.c2"},
          delta \in {1}, other \in 0..cgs_q - 1 :
         VerifyProof(changed, delta, other)
    \/ \E message \in Messages, randomness \in Randomness : Encrypt(message, randomness)
    \/ \E message \in Messages, randomness \in Randomness : Add(message, randomness)
    \/ Decrypt

SpecCgs == InitCgs /\ [][NextCgs]_vars

\* The shares of the trustees in S, in the order of their indices.
RECURSIVE SharesOf(_, _)
SharesOf(S, upto) ==
    IF upto = 0 THEN << >>
    ELSE IF upto \in S THEN Append(SharesOf(S, upto - 1), cgs.shares[upto])
    ELSE SharesOf(S, upto - 1)

\* decrypted = cgs.threshold_decrypt(ciphertext, selected_shares, public_key)
ThresholdDecrypt(S) ==
    /\ cgs.op = "encrypt"
    /\ CgsFrame
    /\ cgs' = [cgs EXCEPT !.op = "threshold_decrypt", !.used = S,
                          !.output = threshold_decrypt(cgs.ciphertext,
                                                       SharesOf(S, Len(cgs.shares)),
                                                       cgs.public_key)]

\* combined_key = self.cgs.combine_key_shares(key_shares)
CombineKeyShares(S) ==
    /\ cgs.op = "none"
    /\ CgsFrame
    /\ LET shares == SharesOf(S, Len(cgs.shares))
           key_shares == [n \in 1..Len(shares) |-> _serialize_key_share(shares[n])]
       IN cgs' = [cgs EXCEPT !.op = "combine_key_shares", !.used = S,
                             !.output = combine_key_shares(key_shares)]

\* public_key, shares = cgs.generate_threshold_keys(threshold, total_shares),
\* for 2 of 3 and for the 3 of 5 of the election keys.
InitThreshold ==
    /\ InitStore
    /\ tree = NoTree
    /\ election = NewElection(TickMinutes, 2 * TickMinutes, MIN_CANDIDATES)
    /\ \E params \in {<<ELECTION_KEY_THRESHOLD - 1, KEY_SHARES_REQUIRED - 2>>,
                       <<ELECTION_KEY_THRESHOLD, KEY_SHARES_REQUIRED>>},
          x \in 2..cgs_q - 1 :
         \E randoms \in [1..params[1] - 1 -> 0..cgs_q - 1] :
           LET keys == generate_threshold_keys(params[1], params[2], x, randoms)
           IN /\ ~keys.raised
              /\ cgs = [NoCgs EXCEPT !.public_key = keys.public_key,
                                     !.threshold = params[1],
                                     !.shares = keys.shares]

\* The plaintexts and randomness encrypted under a threshold key, and the share
\* lists handed in: every non-empty set of trustees.
NextThreshold ==
    \/ \E message \in {0, 1, max_value - 1, max_value}, randomness \in {2, 3, cgs_q - 1} :
         Encrypt(message, randomness)
    \/ \E S \in SUBSET (1..Len(cgs.shares)) \ {{}} : ThresholdDecrypt(S)
    \/ \E S \in SUBSET (1..Len(cgs.shares)) \ {{}} : CombineKeyShares(S)

SpecThreshold == InitThreshold /\ [][NextThreshold]_vars

\* ----------------------------------------------- concurrent tally specification
\* start_tally as the request tasks run it, each on its own session: the SELECT
\* of the election and the checks on what it read, then, after other requests
\* may have run, the commit of TALLYING and _perform_tally.
StartTallyCall == [NewCall(None) EXCEPT !.pc = "tally"]

\* start_tally, from "Verify election exists and is closed" to "Verify key
\* share proofs"
StartTallyCheck(id, key_shares, share_proofs) ==
    /\ UNCHANGED <<now, election, tokens, receipts, participations, audit, ledger,
                   submits, accepted, cgs, tree>>
    /\ IF \/ ~get_election(id)
          \/ election.status # "closed"
          \/ Len(key_shares) < ELECTION_KEY_THRESHOLD
          \/ first_invalid_proof(key_shares, share_proofs) # 0
       THEN /\ last' = Response("start_tally", "fail")
            /\ req' = req
       ELSE /\ BagCardinality(req) < Cardinality(Requests)
            /\ req' = req (+) SetToBag({StartTallyCall})
            /\ last' = NoResponse

\* start_tally, from "Update election status to tallying" to the return
StartTallyPerform(q) ==
    /\ At(q, "tally")
    /\ UNCHANGED <<now, tokens, receipts, participations, audit, submits, accepted,
                   cgs, tree>>
    /\ req' = req (-) SetToBag({q})
    /\ \E votes \in GetAllVotesAnswers :
         LET run == _perform_tally(votes) IN
           /\ election' = [election EXCEPT !.status = run.status]
           /\ ledger' = IF run.stored
                        THEN Append(ledger, LedgerEntry("TALLY", None, run.result))
                        ELSE ledger
           /\ last' = Response("start_tally", IF run.raised THEN "error" ELSE "ok")

NextTallyRace ==
    \/ \E id \in ElectionIds, key_shares \in KeyShareLists, share_proofs \in ShareProofs :
         StartTallyCheck(id, key_shares, share_proofs)
    \/ \E q \in InFlight : StartTallyPerform(q)

SpecTallyRace == InitTally /\ [][NextTallyRace]_vars

\* ---------------------------------------------------- Merkle specification
\* The calls on a MerkleTree object touch nothing else.
MerkleFrame == UNCHANGED <<now, election, tokens, receipts, participations, audit,
                           ledger, req, submits, accepted, last, cgs>>

\* index = tree.add_leaf(commitment)
AddLeaf(commitment) ==
    /\ tree.op \in {"none", "add_leaf"}
    /\ MerkleFrame
    /\ LET call == add_leaf(tree, commitment)
       IN tree' = [tree EXCEPT !.leaves = call.leaves, !.op = "add_leaf",
                               !.output = call.output]

\* root = tree.get_root(); path, indices = tree.get_proof(index)
GetProof(index) ==
    /\ tree.op \in {"none", "add_leaf"}
    /\ MerkleFrame
    /\ LET call == get_proof(tree, index)
       IN tree' = [tree EXCEPT !.op = "get_proof", !.index = index,
                               !.path = call.path, !.indices = call.indices,
                               !.root = get_root(tree),
                               !.output = [raised |-> call.raised, value |-> None]]

\* tree.verify_proof(leaf, path, indices, root) on the leaf and the path as
\* obtained (changed = -1), or with the leaf (changed = 0) or the sibling of
\* one level (changed = level) replaced by another str.
VerifyMerkleProof(changed, replacement) ==
    /\ tree.op = "get_proof"
    /\ ~tree.output.raised
    /\ changed <= tree.depth
    /\ changed = 0 => replacement # tree.leaves[tree.index + 1]
    /\ changed > 0 => replacement # tree.path[changed]
    /\ MerkleFrame
    /\ LET leaf == IF changed = 0 THEN replacement ELSE tree.leaves[tree.index + 1]
           path == [n \in 1..Len(tree.path) |->
                      IF n = changed THEN replacement ELSE tree.path[n]]
       IN tree' = [tree EXCEPT !.op = "verify_proof", !.changed = changed,
                               !.output = Returns(verify_proof(leaf, path, tree.indices,
                                                               tree.root))]

\* tree = MerkleTree(depth)
InitMerkle ==
    /\ InitStore
    /\ election = NewElection(TickMinutes, 2 * TickMinutes, MIN_CANDIDATES)
    /\ cgs = NoCgs
    /\ \E depth \in 1..MaxDepth : tree = [NoTree EXCEPT !.depth = depth]

\* The commitments added are two strs of which one begins with the other; the
\* replacements are these, a third str and the digests of the tree.
NextMerkle ==
    \/ \E commitment \in {Chars("a"), Chars("a") \o Chars("b")} : AddLeaf(commitment)
    \/ \E index \in 0..2 ^ tree.depth : GetProof(index)
    \/ \E changed \in -1..MaxDepth,
          replacement \in {Chars("a"), Chars("a") \o Chars("b"), Chars("b"),
                           _compute_zeros(0), _compute_zeros(1)} :
         VerifyMerkleProof(changed, replacement)

SpecMerkle == InitMerkle /\ [][NextMerkle]_vars

\* ------------------------------------------------------------------ claims
\* C1: no two receipts and no two ledger VOTE entries of the election carry
\* the same nullifier, whatever the voting mode and the interleaving of
\* submit_vote calls.
C1_NullifierUnique ==
    /\ \A i, j \in 1..Len(receipts) :
         i # j => receipts[i].nullifier_hash # receipts[j].nullifier_hash
    /\ \A i, j \in VoteEntries : i # j => ledger[i].nullifier # ledger[j].nullifier

\* C2: a token is accepted by at most one submission, and used_at, once the
\* token is used, never changes.
C2_TokenSingleUse ==
    [][\A t \in DOMAIN tokens :
         /\ accepted'[t] <= 1
         /\ tokens[t].is_used => tokens'[t].used_at = tokens[t].used_at]_vars

\* The edges of the election state machine.
LegalTransitions ==
    {<<"draft", "pending">>, <<"pending", "active">>, <<"active", "closed">>,
     <<"closed", "tallying">>, <<"tallying", "completed">>,
     <<"draft", "cancelled">>, <<"pending", "cancelled">>, <<"active", "cancelled">>}

\* C3: every change of an election's status follows an edge of the state
\* machine; completed and cancelled are never left.
C3_LegalTransitionsOnly ==
    [][election'.status # election.status
         => <<election.status, election'.status>> \in LegalTransitions]_vars

\* C4: a status transition that is rejected (update_status or start_tally
\* returning failure) leaves the status and every other stored field as they
\* were.
C4_RejectedTransitionChangesNothing ==
    [][(last'.op \in {"update_status", "start_tally"} /\ last'.result = "fail")
         => /\ election' = election
            /\ UNCHANGED <<tokens, receipts, participations, audit, ledger>>]_vars

\* C4 happens: activating a pending election that lacks its key or its Merkle
\* root has just been refused.
C4_Witness ==
    /\ last = Response("update_status", "fail")
    /\ election.status = "pending"
    /\ activation_error(election) # None

\* C5: a submission whose ledger append failed is rolled back whole: no
\* receipt is stored for it.
C5_LedgerFailureStoresNothing ==
    \A i \in 1..Len(receipts) : receipts[i].blockchain_tx_id # NoTx

\* C6: once no submission is in flight, every ledger VOTE entry has its
\* receipt: no entry is left on the ledger without one.
C6_LedgerEntryHasReceipt ==
    req = EmptyBag =>
      \A i \in VoteEntries :
        \E j \in 1..Len(receipts) : receipts[j].blockchain_tx_id = ledger[i].tx

\* C7: every stored receipt has a ledger VOTE entry of the election with its
\* nullifier and with a payload hashing to its encrypted_vote_hash, and no
\* other VOTE entry carries that nullifier.
C7_ReceiptHasLedgerEntry ==
    \A j \in 1..Len(receipts) :
      \E i \in VoteEntries :
        /\ ledger[i].nullifier = receipts[j].nullifier_hash
        /\ Hash(ledger[i].payload) = receipts[j].encrypted_vote_hash
        /\ \A k \in VoteEntries : ledger[k].nullifier = ledger[i].nullifier => k = i

\* What submit_vote answers when it rejects before the ledger append.
PreLedgerRejections ==
    {"Invalid or already used token", "Token has expired", "Election is not active",
     "Vote already submitted (duplicate nullifier)", "Invalid eligibility proof",
     "Invalid validity proof"}

\* C8: a submission rejected before the ledger append changes nothing: the
\* ledger, the receipts, the participations, the audit log and the tokens stay
\* as they were, and every receipt stays retrievable by its verification code.
C8_RejectedSubmissionChangesNothing ==
    [][(last'.op = "submit_vote" /\ last'.result \in PreLedgerRejections)
         => /\ UNCHANGED <<ledger, receipts, participations, audit, tokens>>
            /\ \A c \in 1..Len(receipts) :
                 get_receipt(c) # {} /\ get_receipt(c)' = get_receipt(c)]_vars

\* C8 happens: a submission has just been rejected for its nullifier while an
\* earlier receipt is stored and retrievable.
C8_Witness ==
    /\ last = Response("submit_vote", "Vote already submitted (duplicate nullifier)")
    /\ receipts # << >>
    /\ get_receipt(1) # {}

\* C9: once the election is closed or tallying no ledger VOTE entry and no
\* receipt is created.
C9_NoVoteAfterClose ==
    [][election.status \in {"closed", "tallying"}
         => /\ Len(ledger') = Len(ledger)
            /\ Len(receipts') = Len(receipts)]_vars

\* C10: an active election has its public key, its Merkle root, at least two
\* candidates, and start_time <= now < end_time.
C10_ActiveIsOpen ==
    (election.exists /\ election.status = "active") =>
      /\ election.election_public_key # None
      /\ election.voter_merkle_root # None
      /\ election.candidates >= MIN_CANDIDATES
      /\ election.start_time # NoTime /\ election.start_time <= now
      /\ election.end_time # NoTime /\ now < election.end_time

\* C11: the transition pending -> active is taken only when the public key,
\* the Merkle root and the trustees' key shares are set and the clock has
\* reached start_time.
C11_ActivationNeedsSetup ==
    [][(election.status = "pending" /\ election'.status = "active")
         => /\ election.election_public_key # None
            /\ election.voter_merkle_root # None
            /\ election.election_private_key_shares # 0
            /\ election.start_time # NoTime
            /\ now >= election.start_time]_vars

\* A quorum as the state machine asks for it: at least k shares of distinct
\* trustees, every share sound, and a proof for every share.
Quorum(key_shares, share_proofs) ==
    /\ Cardinality({key_shares[i].index : i \in 1..Len(key_shares)})
         >= ELECTION_KEY_THRESHOLD
    /\ \A i \in 1..Len(key_shares) : key_shares[i].sound
    /\ Len(share_proofs) >= Len(key_shares)

\* C12: a start_tally call moves a closed election on only when it carries a
\* quorum: a call with fewer proofs than shares, with a repeated share or with
\* an unsound share leaves the election closed.
C12_TallyNeedsQuorum ==
    [][\A key_shares \in KeyShareLists, share_proofs \in ShareProofs :
         (/\ election.status = "closed"
          /\ election'.status # "closed"
          /\ start_tally(ElectionId, key_shares, share_proofs))
         => Quorum(key_shares, share_proofs)]_vars

\* The tally results stored on the ledger.
TallyEntries == {i \in 1..Len(ledger) : ledger[i].type = "TALLY"}

\* C13: an election is completed only once a tally result for it has been
\* stored on the ledger.
C13_CompletedHasTallyResult ==
    (election.exists /\ election.status = "completed") => TallyEntries # {}


\* C14: when start_tally is accepted for a closed election whose recorded
\* ballots are candidate vectors, the tally result it publishes on the ledger
\* gives every candidate the number of recorded ballots whose bit for that
\* candidate is 1.
VectorBallotsRecorded ==
    /\ VoteEntries # {}
    /\ \A i \in VoteEntries : ledger[i].payload.kind = "vector"
C14_TallyCountsBallots ==
    [][(/\ election.status = "closed"
        /\ election'.status # "closed"
        /\ last'.op = "start_tally"
        /\ VectorBallotsRecorded)
         => /\ Len(ledger') = Len(ledger) + 1
            /\ ledger'[Len(ledger')].type = "TALLY"
            /\ ledger'[Len(ledger')].payload.vote_counts = CountsOf(ledger)]_vars

\* C15: the tally aggregates the recorded VOTE entries after deduplication by
\* nullifier: when start_tally has read the recorded votes and aggregated them,
\* the aggregate is the one of the first ballot of each nullifier, so that a
\* nullifier contributes at most one ballot.
FirstOfNullifier ==
    {i \in VoteEntries :
        \A j \in VoteEntries : ledger[j].nullifier = ledger[i].nullifier => i <= j}
DeduplicatedVotes ==
    LET votes == SelectSeq(ledger, LAMBDA entry : entry.tx \in FirstOfNullifier)
    IN [i \in 1..Len(votes) |-> votes[i].payload]
C15_TallyDeduplicatesNullifiers ==
    [][(/\ election.status = "closed"
        /\ last' = Response("start_tally", "error"))
         => _aggregate_votes(RecordedVotes) = _aggregate_votes(DeduplicatedVotes)]_vars

\* C16: verify_tallied_as_recorded answers verified only for a ledger whose
\* published tally result carries the hash of the aggregate of the recorded
\* ballots, a decryption proof for that aggregate, and the counts of the
\* recorded ballots; with counts that differ from the recorded ballots (no
\* ballots recorded included) it answers not verified.
PublishedTally ==
    LET stored == SelectSeq(ledger, LAMBDA entry : entry.type = "TALLY")
    IN stored[Len(stored)].payload
C16_VerifiedTallyMatchesBallots ==
    last = Response("verify_tallied_as_recorded", "verified")
      => /\ TallyEntries # {}
         /\ PublishedTally.aggregated_hash = Hash(_aggregate_votes(RecordedVotes))
         /\ PublishedTally.decryption_proof.ciphertext_hash = PublishedTally.aggregated_hash
         /\ PublishedTally.vote_counts = CountsOf(ledger)

\* C17: verify_cast_as_intended reports verified only when the ledger holds a
\* VOTE entry with the receipt's nullifier whose payload hash is the receipt's
\* ciphertext hash; a receipt stored locally whose ledger lookup fails or
\* finds no match is reported as not verified.
LedgerConfirms(receipt) ==
    \E i \in VoteEntries :
        /\ ledger[i].nullifier = receipt.nullifier_hash
        /\ Hash(ledger[i].payload) = receipt.encrypted_vote_hash
ReportedVerified ==
    {Response("verify_cast_as_intended", "verified, blockchain confirmed"),
     Response("verify_cast_as_intended", "verified, blockchain not confirmed")}
C17_CastVerifiedOnlyIfOnLedger ==
    [][\A verification_code \in 1..2 :
         (verify_cast_as_intended(verification_code) /\ last' \in ReportedVerified)
           => \A receipt \in get_receipt(verification_code) : LedgerConfirms(receipt)]_vars

\* C18: in SINGLE mode, whatever tokens are issued and whatever submissions
\* are made, at most one ballot of a voter is accepted for the election.
RECURSIVE AcceptedFrom(_, _)
AcceptedFrom(user_id, i) ==
    IF i > Len(TokenOrder) THEN 0
    ELSE (IF TokenOrder[i] \in DOMAIN tokens /\ tokens[TokenOrder[i]].voter_ref = user_id
          THEN accepted[TokenOrder[i]] ELSE 0)
         + AcceptedFrom(user_id, i + 1)
BallotsAccepted(user_id) == AcceptedFrom(user_id, 1)
C18_SingleModeOneBallot ==
    election.voting_mode = "single" => \A user_id \in Users : BallotsAccepted(user_id) <= 1

\* C19: in MULTI_LIMITED mode, after any accepted submissions of a voter, the
\* voter's selections number at most M = max_candidates_per_voter *
\* max_votes_per_candidate in total and at most V = max_votes_per_candidate for
\* any one candidate, the first submission included.
C19_MultiLimitedWithinLimits ==
    election.voting_mode = "multi_limited"
      => \A i \in 1..Len(participations) :
           /\ participations[i].total_votes_cast
                <= election.max_candidates_per_voter * election.max_votes_per_candidate
           /\ \A c \in 1..MaxCandidates :
                participations[i].votes_by_candidate[c] <= election.max_votes_per_candidate

\* C20: in PERIODIC_RESET mode, for a voter and a period index
\* floor((now - start_time) / T), at most one ballot of the voter is accepted
\* within the period; the ballots of earlier periods stay recorded.
BallotsInPeriod(period) ==
    Cardinality({i \in 1..Len(receipts) : receipts[i].voting_period = period})
C20_PeriodicOneBallotPerPeriod ==
    election.voting_mode = "periodic_reset"
      => \A period \in 0..(LastTime \div MINUTES_PER_HOUR) : BallotsInPeriod(period) <= 1

\* C21: under every interleaving of issue_vote_token calls, a voter holds at
\* most one unused, unexpired token of the election, and a call made while the
\* voter holds one creates no token.
HeldTokens(user_id) ==
    {t \in DOMAIN tokens :
        /\ tokens[t].exists
        /\ tokens[t].voter_ref = user_id
        /\ ~tokens[t].is_used
        /\ tokens[t].expires_at > now}
C21_OneLiveTokenPerVoter ==
    \A user_id \in Voters : Cardinality(HeldTokens(user_id)) <= 1

\* C22: a token presented after its expires_at is refused with "Token has
\* expired" and nothing is changed; and an issue_vote_token call of a voter
\* whose only token has expired passes the checks and goes on to issue a token.
ExpiredUnused(t) ==
    tokens[t].exists /\ ~tokens[t].is_used /\ now > tokens[t].expires_at
OnlyTokenExpired(user_id) ==
    LET held == {t \in DOMAIN tokens : tokens[t].exists /\ tokens[t].voter_ref = user_id}
    IN held # {} /\ \A t \in held : ExpiredUnused(t)
C22_ExpiredTokenRefusedThenReissued ==
    [][/\ \A token \in DOMAIN tokens :
            (SubmitCheckToken(token) /\ ExpiredUnused(token))
              => /\ last' = Response("submit_vote", "Token has expired")
                 /\ UNCHANGED <<election, tokens, receipts, participations, audit,
                                ledger, req, accepted>>
       /\ \A user_id \in Voters :
            (/\ IssueCheckExisting(user_id, ElectionId)
             /\ is_active(election, now)
             /\ OnlyTokenExpired(user_id))
              => /\ last' = NoResponse
                 /\ IssueCall(user_id) \in BagToSet(req')]_vars


\* C23: issue_vote_token fails, and stores no token and no audit row, for an
\* election that is unknown, whose status is not active, or whose voting
\* window [start_time, end_time) does not contain the current time.
WithinWindow(e, t) ==
    /\ e.start_time # NoTime
    /\ e.end_time # NoTime
    /\ e.start_time <= t
    /\ t < e.end_time
C23_NoTokenUnlessActive ==
    [][\A user_id \in Users, id \in ElectionIds :
         (/\ issue_vote_token(user_id, id)
          /\ ~(get_election(id) /\ election.status = "active" /\ WithinWindow(election, now)))
           => /\ last' = Response("issue_vote_token", "fail")
              /\ UNCHANGED <<tokens, audit>>]_vars

\* C24: the election-state check of a submission passes at time t only if the
\* election is active and start_time <= t < end_time; at t = end_time the
\* submission is refused.
C24_WindowIsHalfOpen ==
    [][\A q \in InFlight :
         (/\ SubmitCheckElection(q)
          /\ [q EXCEPT !.pc = "eligibility"] \in BagToSet(req'))
           => /\ election.exists
              /\ election.status = "active"
              /\ WithinWindow(election, now)]_vars

\* C25: the change from draft to pending is accepted only when the election has
\* at least two candidates and a window start_time < end_time that lies in the
\* future; otherwise it is refused.
C25_PendingNeedsCandidatesAndWindow ==
    [][\A id \in ElectionIds :
         (/\ update_status(id, "pending")
          /\ election.status = "draft"
          /\ election'.status = "pending")
           => /\ election.candidates >= MIN_CANDIDATES
              /\ election.start_time < election.end_time
              /\ now < election.start_time]_vars

\* C26: every accepted status transition appends an entry to the ledger (OPEN
\* on activation, CLOSE on closing, TALLY_START and TALLY_RESULT for the
\* tally), so the ledger's entries follow the order of the status changes.
TransitionEntry(status) ==
    CASE status = "active" -> "OPEN"
      [] status = "closed" -> "CLOSE"
      [] status = "tallying" -> "TALLY_START"
      [] status = "completed" -> "TALLY_RESULT"
      [] OTHER -> None
C26_TransitionsAreLedgered ==
    [][(/\ \/ \E id \in ElectionIds, s \in Statuses : update_status(id, s)
           \/ \E id \in ElectionIds, key_shares \in KeyShareLists,
                 share_proofs \in ShareProofs :
                   start_tally(id, key_shares, share_proofs)
        /\ election'.status # election.status
        /\ TransitionEntry(election'.status) # None)
         => /\ Len(ledger') > Len(ledger)
            /\ ledger'[Len(ledger')].type = TransitionEntry(election'.status)]_vars

\* C29: for every key pair of generate_keypair, every plaintext m within the
\* discrete-log bound and every randomness r in [2, q-1], decrypting the
\* encryption of m gives m back.
C29_DecryptInvertsEncrypt ==
    (cgs.op = "decrypt" /\ cgs.terms = 1)
      => /\ ~cgs.output.raised
         /\ cgs.output.value = cgs.message
C29_Witness ==
    /\ cgs.op = "decrypt"
    /\ cgs.terms = 1
    /\ cgs.message = max_value
    /\ ~cgs.output.raised
    /\ cgs.output.value = max_value

\* C30: for plaintexts m1, m2 with m1 + m2 within the bound, the
\* homomorphic_add of their encryptions under one key decrypts to m1 + m2, and
\* the sum ciphertext is the same whichever operand comes first.
C30_AddIsHomomorphic ==
    (cgs.terms = 2 /\ cgs.message <= max_value)
      => /\ cgs.reversed = _serialize_ciphertext(cgs.ciphertext)
         /\ cgs.op = "decrypt" => (~cgs.output.raised /\ cgs.output.value = cgs.message)
C30_Witness ==
    /\ cgs.terms = 2
    /\ cgs.op = "decrypt"
    /\ cgs.addend = 5
    /\ cgs.message = 8
    /\ ~cgs.output.raised
    /\ cgs.output.value = 8

\* C27: for a (k, n) threshold key set and a plaintext within the bound,
\* threshold_decrypt with the shares of any k trustees gives the plaintext
\* back, so any two such sets of trustees give the same result.
C27_AnyQuorumDecrypts ==
    (cgs.op = "threshold_decrypt" /\ Cardinality(cgs.used) = cgs.threshold)
      => /\ ~cgs.output.raised
         /\ cgs.output.value = cgs.message
C27_Witness ==
    /\ cgs.op = "threshold_decrypt"
    /\ cgs.threshold = ELECTION_KEY_THRESHOLD
    /\ cgs.used = {1, 4, 5}
    /\ cgs.shares[1].share # cgs.shares[4].share
    /\ cgs.shares[4].share # cgs.shares[5].share
    /\ cgs.message = max_value - 1
    /\ ~cgs.output.raised
    /\ cgs.output.value = max_value - 1

\* C28: with the shares of k - 1 trustees, threshold_decrypt and
\* combine_key_shares raise an error; they yield no plaintext and no private
\* key.
C28_BelowQuorumFails ==
    (/\ cgs.op \in {"threshold_decrypt", "combine_key_shares"}
     /\ Cardinality(cgs.used) = cgs.threshold - 1)
      => cgs.output.raised

\* C31: _discrete_log returns v for every y = g^v mod p with 0 <= v <=
\* max_value, and raises, never returning a wrong value, for every y that is
\* no such power.
C31_DiscreteLogExactOrError ==
    cgs.op = "_discrete_log"
      => LET powers == {v \in 0..max_value :
                          pow(DEFAULT_G, v, DEFAULT_P) = cgs.g_m}
         IN IF powers = {}
            THEN cgs.output.raised
            ELSE ~cgs.output.raised /\ cgs.output.value \in powers
C31_Witness ==
    /\ cgs.op = "_discrete_log"
    /\ cgs.g_m = pow(DEFAULT_G, max_value, DEFAULT_P)
    /\ ~cgs.output.raised
    /\ cgs.output.value = max_value

\* C32: for every key pair, bit b and randomness r, the proof made by
\* generate_encryption_proof for encrypt(pk, b, r) is accepted by
\* verify_encryption_proof.
C32_HonestProofAccepted ==
    (cgs.op = "verify_encryption_proof" /\ cgs.changed = None)
      => cgs.output.value

\* C33: with one challenge, one response or one ciphertext component of an
\* honest proof replaced by another value, verify_encryption_proof returns
\* false.
C33_ChangedProofRejected ==
    (cgs.op = "verify_encryption_proof" /\ cgs.changed # None)
      => ~cgs.output.value

\* C34: after any sequence of add_leaf calls and for every index below the
\* number of leaves, verify_proof accepts the leaf with get_proof's path
\* against get_root, and rejects it when the leaf or one sibling of the path
\* is replaced by a different value.
C34_MerkleProofSoundAndComplete ==
    tree.op = "verify_proof" => (tree.output.value <=> tree.changed = -1)
C34_Witness ==
    /\ tree.op = "verify_proof"
    /\ tree.depth = MaxDepth
    /\ Len(tree.leaves) = 2 ^ MaxDepth - 1
    /\ tree.index = 1
    /\ tree.changed = -1
    /\ tree.output.value

\* C35: a tree of depth D never holds more than 2^D leaves: add_leaf on a full
\* tree raises and leaves the leaves and the root as they were, and every
\* successful add_leaf returns the number of leaves before the call.
C35_CapacityEnforced ==
    [][(\E commitment \in {Chars("a"), Chars("a") \o Chars("b")} : AddLeaf(commitment))
         => /\ Len(tree'.leaves) <= 2 ^ tree'.depth
            /\ IF Len(tree.leaves) = 2 ^ tree.depth
               THEN /\ tree'.output.raised
                    /\ tree'.leaves = tree.leaves
                    /\ get_root(tree') = get_root(tree)
               ELSE /\ ~tree'.output.raised
                    /\ tree'.output.value = Len(tree.leaves)
                    /\ Len(tree'.leaves) = Len(tree.leaves) + 1]_vars
C35_Witness ==
    /\ tree.op = "add_leaf"
    /\ tree.depth = MaxDepth
    /\ Len(tree.leaves) = 2 ^ MaxDepth
    /\ tree.output.raised

\* C36: an issue_vote_token call for an active election by a voter who holds
\* no unused, unexpired token passes the checks and goes on to issue a token,
\* whatever tokens the other voters hold.
C36_IssuancePerVoter ==
    [][\A user_id \in Voters :
         (/\ IssueCheckExisting(user_id, ElectionId)
          /\ is_active(election, now)
          /\ HeldTokens(user_id) = {})
           => /\ last' = NoResponse
              /\ IssueCall(user_id) \in BagToSet(req')]_vars

\* C37: a start_tally call on a closed election whose key_shares hold at
\* least ELECTION_KEY_THRESHOLD shares of distinct trustees that verify with
\* their proofs is not refused, whatever other shares the list holds.
VerifiedTrustees(key_shares, share_proofs) ==
    {key_shares[i].index :
        i \in {j \in 1..Len(key_shares) :
                 /\ j <= Len(share_proofs)
                 /\ verify_key_share_proof(key_shares[j], share_proofs[j])}}
C37_FailedShareNotFatal ==
    [][\A key_shares \in KeyShareLists, share_proofs \in ShareProofs :
         (/\ start_tally(ElectionId, key_shares, share_proofs)
          /\ election.status = "closed"
          /\ Cardinality(VerifiedTrustees(key_shares, share_proofs))
               >= ELECTION_KEY_THRESHOLD)
           => last'.result # "fail"]_vars

\* C39: whenever start_tally returns success for a closed election, with or
\* without recorded ballots, the election's status is completed on return.
C39_StartedTallyCompletes ==
    [][\A key_shares \in KeyShareLists, share_proofs \in ShareProofs :
         (/\ start_tally(ElectionId, key_shares, share_proofs)
          /\ election.status = "closed"
          /\ last'.result = "ok")
           => election'.status = "completed"]_vars

\* C38: once an election is pending, active, closed, tallying or completed no
\* step changes its public key, its key shares, its Merkle root or its
\* candidates or deletes it, and set_election_keys, set_voter_eligibility,
\* update_election, add_candidate, remove_candidate and delete_election do not
\* succeed on it.
FrozenStatuses == {"pending", "active", "closed", "tallying", "completed"}
SetupOperations == {"set_election_keys", "set_voter_eligibility", "update_election",
                    "add_candidate", "remove_candidate", "delete_election"}
C40_TallyRunsOnce ==
    [][\A q \in InFlight : StartTallyPerform(q) => election.status = "closed"]_vars
====
